---- MODULE Spec2Model ----
(***************************************************************************)
(* A model of astrbot_plugin_bili_resolver: the domain validator and the   *)
(* card-URL extractor (main.py), the message-chain formatter (main.py) and *)
(* the WBI signer with its key cache (wbi.py).                             *)
(*                                                                         *)
(* A Python str is a sequence of one-character strings, so that parsing,   *)
(* escaping and encoding are computed character by character.              *)
(***************************************************************************)
EXTENDS Integers, Sequences, FiniteSets, TLC

VARIABLES
    \* _is_allowed_domain under test
    vpc,        \* "ready" | "done"
    urlParts,   \* the pieces the URL under test was put together from
    url,        \* the URL string handed to _is_allowed_domain
    allowed     \* the value _is_allowed_domain returned

domainVars == <<vpc, urlParts, url, allowed>>

VARIABLES
    \* _extract_from_raw_message under test
    xpc,        \* "ready" | "done"
    rawParts,   \* what the raw message under test was built from
    raw_message, \* the raw_message handed to _extract_from_raw_message
    extracted   \* what the call returned, or that it raised

extractVars == <<xpc, rawParts, raw_message, extracted>>

VARIABLES
    \* the CQ escaping round trip
    cpc,        \* "ready" | "encoded" | "decoded"
    payload,    \* the JSON payload of a card, before the transport escapes it
    cq_data     \* the escaped payload, then what the extractor decodes from it

cqVars == <<cpc, payload, cq_data>>

VARIABLES
    \* _format_msg under test
    fpc,        \* "ready" | "done"
    msg_list,   \* the (nested) list handed to _format_msg
    chain       \* the message chain it returned

formatVars == <<fpc, msg_list, chain>>

VARIABLES
    \* the WBI key cache and the calls of get_wbi_keys
    clock,          \* time.time(), in ticks
    _wbi_key_cache, \* NoCache (None) or <<img_key, sub_key, timestamp>>
    pc,             \* per caller: "idle" | "get" | "json" | "closing" | "returned" | "raised"
    now,            \* per caller: the local now of its call
    owns_session,   \* per caller: the local owns_session of its call
    session,        \* per caller: the ClientSession its call uses, made or supplied
    resp,           \* per caller: the response of its request, while its call runs
    exc,            \* per caller: the exception its call is raising, "none" for none
    ret,            \* per caller: the pair its call returned
    reqs,           \* per caller: the HTTP requests its call has issued
    writes,         \* per caller: the assignments to _wbi_key_cache its call has made
    cache0,         \* per caller: _wbi_key_cache as it was when its call began
    alone,          \* per caller: no other call was in flight during its call
    sent,           \* per caller: the clock when its call issued its request
    origin          \* the clock when the request behind the cached entry was issued

VARIABLES
    \* two runs of enc_wbi side by side, and one call of get_query
    spc,            \* "off" | "ready" | "signed" | "compared"
    given_params,   \* the dict the caller built, as the sequence of its items
    caller_params,  \* the same dict object, as the calls leave it
    signed_params,  \* the dict enc_wbi returned
    other_params,   \* the dict passed to the second run of enc_wbi
    other_signed,   \* the dict the second run returned
    variation,      \* how the second run's dict was made from the first: "none" | "again" | "order" | "value"
    qpc,            \* "off" | "ready" | "keys" | "done" | "failed"
    query_string    \* the str get_query returned

signVars ==
    <<spc, given_params, caller_params, signed_params, other_params, other_signed, variation, qpc,
      query_string>>

cacheVars ==
    <<clock, _wbi_key_cache, pc, now, owns_session, session, resp, exc, ret, reqs, writes,
      cache0, alone, sent, origin>>

VARIABLES
    \* the plugin object, its ClientSessions, and the handlers the framework runs on it
    enable_auto_parse,    \* self.enable_auto_parse
    enable_search,        \* self.enable_search
    group_whitelist_mode, \* self.group_whitelist_mode
    group_list,           \* self.group_list
    _session,             \* self._session: NoSession (None) or the number of a ClientSession
    sessions,             \* the ClientSessions made so far: for each, closed and the closes that took effect
    tpc,                  \* terminate: "off" | "idle" | "closing" | "done"
    hpc,                  \* per handler: "off" | "idle" | "b23" | "search" | "keyword" | "done" | "raised"
    handler,              \* per handler: "none" | "on_message" | "search_video"
    event,                \* per handler: the event it was called with
    htext,                \* per handler: the local text
    hsession,             \* per handler: the local session
    hmsg,                 \* per handler: the local msg, Unset before bili_keyword has returned
    hlog                  \* per handler: what it has done, oldest first: "call" (a resolver
                          \* awaited), "except" (its except clause ran), "stop", "reply"

pluginVars ==
    <<enable_auto_parse, enable_search, group_whitelist_mode, group_list, _session, sessions,
      tpc, hpc, handler, event, htext, hsession, hmsg, hlog>>

vars == <<domainVars, extractVars, cqVars, formatVars, cacheVars, signVars, pluginVars>>

(***************************************************************************)
(* Strings                                                                 *)
(***************************************************************************)

\* The ASCII characters the model's strings are made of, in code-point order.
Ascii ==
    <<" ","!","\"","#","%","&","'","(",")","*","+",",","-",".","/","0","1","2","3","4","5","6","7","8","9",":",";","=","?","@">> \o <<"A","B","C","D","E","F","G","H","I","J","K","L","M","N","O","P","Q","R","S","T","U","V","W","X","Y","Z">> \o
    <<"[","]","_">> \o <<"a","b","c","d","e","f","g","h","i","j","k","l","m","n","o","p","q","r","s","t","u","v","w","x","y","z">> \o <<"{","}","~">>

UpperCase == <<"A","B","C","D","E","F","G","H","I","J","K","L","M","N","O","P","Q","R","S","T","U","V","W","X","Y","Z">>
LowerCase == <<"a","b","c","d","e","f","g","h","i","j","k","l","m","n","o","p","q","r","s","t","u","v","w","x","y","z">>
Digits == <<"0","1","2","3","4","5","6","7","8","9">>

Range(s) == {s[i] : i \in 1..Len(s)}

\* The position of character c in sequence s, 0 when it is not there.
IndexOf(s, c) ==
    IF \E i \in 1..Len(s) : s[i] = c
    THEN CHOOSE i \in 1..Len(s) : s[i] = c /\ \A j \in 1..(i - 1) : s[j] # c
    ELSE 0

\* The code points of the characters of Ascii, in the same order.
AsciiCodes ==
    << 32, 33, 34, 35, 37, 38, 39, 40, 41, 42, 43, 44, 45, 46, 47, 48, 49, 50, 51, 52,
       53, 54, 55, 56, 57, 58, 59, 61, 63, 64, 65, 66, 67, 68, 69, 70, 71, 72, 73, 74,
       75, 76, 77, 78, 79, 80, 81, 82, 83, 84, 85, 86, 87, 88, 89, 90, 91, 93, 95, 97,
       98, 99, 100, 101, 102, 103, 104, 105, 106, 107, 108, 109, 110, 111, 112, 113,
       114, 115, 116, 117, 118, 119, 120, 121, 122, 123, 125, 126 >>

\* ord(c)
OrdTable == [c \in Range(Ascii) |-> AsciiCodes[IndexOf(Ascii, c)]]
Ord(c) == OrdTable[c]

RECURSIVE StrLess(_, _)
\* a < b for two str: by code point, a proper prefix first.
StrLess(a, b) ==
    IF b = <<>> THEN FALSE
    ELSE IF a = <<>> THEN TRUE
    ELSE IF a[1] # b[1] THEN Ord(a[1]) < Ord(b[1])
    ELSE StrLess(Tail(a), Tail(b))

\* str.lower() on one character and on a string.
LowerChar(c) == IF c \in Range(UpperCase) THEN LowerCase[IndexOf(UpperCase, c)] ELSE c
Lower(s) == [i \in 1..Len(s) |-> LowerChar(s[i])]

\* s[from:] and s[:to] with 1-based, inclusive positions.
From(s, i) == SubSeq(s, i, Len(s))
Upto(s, i) == SubSeq(s, 1, i)

StartsWith(s, p) == Len(s) >= Len(p) /\ SubSeq(s, 1, Len(p)) = p
EndsWith(s, p) == Len(s) >= Len(p) /\ SubSeq(s, Len(s) - Len(p) + 1, Len(s)) = p

\* str.find(c) for a character: the first position of c at or after start, 0 for none.
Find(s, c, start) ==
    IF \E i \in start..Len(s) : s[i] = c
    THEN CHOOSE i \in start..Len(s) : s[i] = c /\ \A j \in start..(i - 1) : s[j] # c
    ELSE 0

\* str.rfind(c): the last position of c, 0 for none.
RFind(s, c) ==
    IF \E i \in 1..Len(s) : s[i] = c
    THEN CHOOSE i \in 1..Len(s) : s[i] = c /\ \A j \in (i + 1)..Len(s) : s[j] # c
    ELSE 0

\* The first position at or after start of any character of cs, Len(s) + 1 for none.
FindAny(s, cs, start) ==
    IF \E i \in start..Len(s) : s[i] \in cs
    THEN CHOOSE i \in start..Len(s) : s[i] \in cs /\ \A j \in start..(i - 1) : s[j] \notin cs
    ELSE Len(s) + 1

\* str.rstrip(c) for one character.
RStrip(s, c) ==
    IF \E i \in 1..Len(s) : s[i] # c
    THEN Upto(s, CHOOSE i \in 1..Len(s) : s[i] # c /\ \A j \in (i + 1)..Len(s) : s[j] = c)
    ELSE <<>>

RECURSIVE ConcatRange(_, _, _)
\* ss[lo] + ... + ss[hi], by halves.
ConcatRange(ss, lo, hi) ==
    IF lo > hi THEN <<>>
    ELSE IF lo = hi THEN ss[lo]
    ELSE LET mid == (lo + hi) \div 2 IN ConcatRange(ss, lo, mid) \o ConcatRange(ss, mid + 1, hi)

\* "".join(ss)
Concat(ss) == ConcatRange(ss, 1, Len(ss))

RECURSIVE Join(_, _)
\* sep.join(ss)
Join(ss, sep) ==
    IF ss = <<>> THEN <<>>
    ELSE IF Len(ss) = 1 THEN ss[1]
    ELSE ss[1] \o sep \o Join(Tail(ss), sep)

RECURSIVE Split(_, _)
\* s.split(c)
Split(s, c) ==
    LET i == Find(s, c, 1) IN
    IF i = 0 THEN <<s>> ELSE <<Upto(s, i - 1)>> \o Split(From(s, i + 1), c)

IsAt(s, i, word) == i + Len(word) - 1 <= Len(s) /\ SubSeq(s, i, i + Len(word) - 1) = word

\* The first position at or after start where sub begins, 0 for none.
FindSub(s, sub, start) ==
    IF \E i \in start..(Len(s) - Len(sub) + 1) : IsAt(s, i, sub)
    THEN CHOOSE i \in start..(Len(s) - Len(sub) + 1) :
            IsAt(s, i, sub) /\ \A j \in start..(i - 1) : ~IsAt(s, j, sub)
    ELSE 0

RECURSIVE Replace(_, _, _)
\* s.replace(old, new): the occurrences of old from the left, not overlapping.
Replace(s, old, new) ==
    LET p == FindSub(s, old, 1) IN
    IF p = 0 THEN s
    ELSE Upto(s, p - 1) \o new \o Replace(From(s, p + Len(old)), old, new)

\* str(n) of an integer n >= 0.
RECURSIVE DigitsOf(_)
DigitsOf(n) == IF n < 10 THEN <<Digits[n + 1]>> ELSE DigitsOf(n \div 10) \o <<Digits[(n % 10) + 1]>>

\* int(ds) of a digit string.
RECURSIVE DigitsValue(_)
DigitsValue(ds) ==
    IF ds = <<>> THEN 0
    ELSE 10 * DigitsValue(Upto(ds, Len(ds) - 1)) + (IndexOf(Digits, ds[Len(ds)]) - 1)

(***************************************************************************)
(* urllib.parse.urlparse, as far as main.py uses it: the netloc, the path  *)
(* and the hostname of a str URL.                                          *)
(***************************************************************************)

SchemeChars == Range(LowerCase) \cup Range(UpperCase) \cup Range(Digits) \cup {"+", "-", "."}
Letters == Range(LowerCase) \cup Range(UpperCase)

\* urlsplit's scheme test: a ':' after a letter and scheme characters only.
SchemeEnd(u) ==
    LET i == Find(u, ":", 1) IN
    IF i > 1 /\ u[1] \in Letters /\ \A j \in 1..(i - 1) : u[j] \in SchemeChars
    THEN i ELSE 0

\* s up to its first c, all of s if it has none.
Before(s, c) == IF Find(s, c, 1) > 0 THEN Upto(s, Find(s, c, 1) - 1) ELSE s

\* The path of a URL from its netloc on: the fragment cut off, then the query.
PathOf(afterNet) == Before(Before(afterNet, "#"), "?")

\* The result of urlsplit; err is the ValueError("Invalid IPv6 URL") of an unmatched bracket.
SplitResult(scheme, hasNet, netloc, path) ==
    [err |-> hasNet /\ (("[" \in Range(netloc)) # ("]" \in Range(netloc))),
     scheme |-> scheme, netloc |-> netloc, path |-> path]

\* urlsplit after the scheme: the netloc, if rest starts with //, runs to the first / ? or #.
SplitNetloc(scheme, rest) ==
    IF StartsWith(rest, <<"/","/">>)
    THEN SplitResult(scheme, TRUE, SubSeq(rest, 3, FindAny(rest, {"/", "?", "#"}, 3) - 1),
                     PathOf(From(rest, FindAny(rest, {"/", "?", "#"}, 3))))
    ELSE SplitResult(scheme, FALSE, <<>>, PathOf(rest))

\* urlsplit of u whose scheme, if se > 0, ends before position se.
SplitScheme(u, se) ==
    IF se > 0 THEN SplitNetloc(Lower(Upto(u, se - 1)), From(u, se + 1))
    ELSE SplitNetloc(<<>>, u)

\* urlsplit(u)
UrlSplit(u) == SplitScheme(u, SchemeEnd(u))

\* SplitResult.hostname; <<>> stands for None. Bracketed (IPv6) hosts are not modelled.
Hostname(netloc) ==
    Lower(Before(IF RFind(netloc, "@") > 0 THEN From(netloc, RFind(netloc, "@") + 1) ELSE netloc,
                 ":"))

(***************************************************************************)
(* Domain Validator                                                        *)
(***************************************************************************)

_ALLOWED_DOMAINS ==
    << <<"b","i","l","i","b","i","l","i",".","c","o","m">>, <<"b","2","3",".","t","v">>, <<"b","i","l","i","v","i","d","e","o",".","c","o","m">>, <<"b","i","l","i","v","i","d","e","o",".","c","n">>, <<"b","i","l","i","v","i","d","e","o",".","n","e","t">>,
       <<"h","d","s","l","b",".","c","o","m">>, <<"b","i","l","i","2","2","3","3",".","c","n">>, <<"b","i","l","i","2","2",".","c","n">>, <<"b","i","l","i","2","3",".","c","n">>, <<"b","i","l","i","3","3",".","c","n">> >>

\* A validator that forgets the dot before the domain.
HostMatchesNoDot(host, domain) == host = domain \/ EndsWith(host, domain)

\* host == domain or host.endswith("." + domain)
HostMatches(host, domain) == host = domain \/ EndsWith(host, <<".">> \o domain)

\* The loop of _is_allowed_domain over _ALLOWED_DOMAINS.
HostAllowed(host) == \E d \in 1..Len(_ALLOWED_DOMAINS) : HostMatches(host, _ALLOWED_DOMAINS[d])

\* _is_allowed_domain once urlparse has given parsed.
ParsedAllowed(parsed) ==
    IF parsed.err THEN FALSE
    ELSE HostAllowed(RStrip(Lower(Hostname(parsed.netloc)), "."))

_is_allowed_domain(u) == ParsedAllowed(UrlSplit(u))

(***************************************************************************)
(* Python values, as far as the extractor tells them apart.  A dict is the *)
(* sequence of its <<key, value>> pairs in insertion order.                *)
(***************************************************************************)

PyNone == [t |-> "none"]
PyBool(b) == [t |-> "bool", b |-> b]
PyInt(n) == [t |-> "int", n |-> n]
PyStr(s) == [t |-> "str", s |-> s]
PyList(items) == [t |-> "list", items |-> items]
PyDict(items) == [t |-> "dict", items |-> items]

IsDict(v) == v.t = "dict"
IsStr(v) == v.t = "str"
IsList(v) == v.t = "list"

\* bool(v)
Truthy(v) ==
    CASE v.t = "none" -> FALSE
      [] v.t = "bool" -> v.b
      [] v.t = "int" -> v.n # 0
      [] v.t = "str" -> v.s # <<>>
      [] OTHER -> v.items # <<>>

\* a or b
PyOr(a, b) == IF Truthy(a) THEN a ELSE b

HasKey(d, k) == \E i \in 1..Len(d.items) : d.items[i][1] = k

\* d.get(k, default)
DictGet(d, k, default) ==
    IF HasKey(d, k)
    THEN d.items[CHOOSE i \in 1..Len(d.items) : d.items[i][1] = k][2]
    ELSE default

\* d[k] = v on the pairs of a dict: a key already there keeps its place.
DictSet(items, k, v) ==
    IF \E i \in 1..Len(items) : items[i][1] = k
    THEN [i \in 1..Len(items) |-> IF items[i][1] = k THEN <<k, v>> ELSE items[i]]
    ELSE Append(items, <<k, v>>)

(***************************************************************************)
(* json.loads on a str.  Modelled: objects, arrays, strings without        *)
(* backslash escapes, non-negative integers, true, false, null, and the    *)
(* space as whitespace.  The result is ok with a value, err                *)
(* (json.JSONDecodeError) or rec (RecursionError: the scanner recursed     *)
(* deeper than the interpreter allows).                                    *)
(***************************************************************************)

\* The nesting depth at which the interpreter's recursion limit is hit
\* (sys.getrecursionlimit(), 1000 by default; scaled down here).
RecursionLimit == 4

JsonErr == [st |-> "err", v |-> PyNone, i |-> 0]
JsonRec == [st |-> "rec", v |-> PyNone, i |-> 0]
JsonOk(v, i) == [st |-> "ok", v |-> v, i |-> i]

\* The first position at or after i that holds no whitespace.
SkipWs(s, i) ==
    IF \E j \in i..Len(s) : s[j] # " "
    THEN CHOOSE j \in i..Len(s) : s[j] # " " /\ \A k \in i..(j - 1) : s[k] = " "
    ELSE Len(s) + 1

CharAt(s, i) == IF i >= 1 /\ i <= Len(s) THEN s[i] ELSE ""

\* The string whose opening quote is at i - 1.
ScanString(s, i) ==
    LET q == Find(s, "\"", i) IN
    IF q = 0 THEN JsonErr ELSE JsonOk(PyStr(SubSeq(s, i, q - 1)), q + 1)

\* The integer whose digits are s[i..end - 1].
NumberUpto(s, i, end) == JsonOk(PyInt(DigitsValue(SubSeq(s, i, end - 1))), end)

\* The integer that starts at i: 0, or a digit run without a leading zero.
ScanNumber(s, i) ==
    NumberUpto(s, i, IF s[i] = "0" THEN i + 1 ELSE FindAny(s, Range(Ascii) \ Range(Digits), i))

RECURSIVE ParseValue(_, _, _), ParseMembers(_, _, _, _), ParseElems(_, _, _, _)
RECURSIVE AfterMember(_, _, _, _, _), AfterKey(_, _, _, _, _), AfterElem(_, _, _, _)

\* JSONObject after its brace, at position j.
ObjectAt(s, j, depth) ==
    CASE CharAt(s, j) = "}" -> JsonOk(PyDict(<<>>), j + 1)
      [] CharAt(s, j) = <<"\"">>[1] -> ParseMembers(s, j, depth + 1, <<>>)
      [] OTHER -> JsonErr

\* JSONArray after its bracket, at position j.
ArrayAt(s, j, depth) ==
    IF CharAt(s, j) = "]" THEN JsonOk(PyList(<<>>), j + 1)
    ELSE ParseElems(s, j, depth + 1, <<>>)

\* scan_once at position i, depth containers deep.
ParseValue(s, i, depth) ==
    CASE CharAt(s, i) = <<"\"">>[1] -> ScanString(s, i + 1)
      [] CharAt(s, i) = "{" ->
            IF depth >= RecursionLimit THEN JsonRec ELSE ObjectAt(s, SkipWs(s, i + 1), depth)
      [] CharAt(s, i) = "[" ->
            IF depth >= RecursionLimit THEN JsonRec ELSE ArrayAt(s, SkipWs(s, i + 1), depth)
      [] CharAt(s, i) = "n" /\ IsAt(s, i, <<"n","u","l","l">>) -> JsonOk(PyNone, i + 4)
      [] CharAt(s, i) = "t" /\ IsAt(s, i, <<"t","r","u","e">>) -> JsonOk(PyBool(TRUE), i + 4)
      [] CharAt(s, i) = "f" /\ IsAt(s, i, <<"f","a","l","s","e">>) -> JsonOk(PyBool(FALSE), i + 5)
      [] CharAt(s, i) \in Range(Digits) -> ScanNumber(s, i)
      [] OTHER -> JsonErr

\* JSONObject after the member that made the pairs more, at position k.
AfterMember(s, k, n, depth, more) ==
    CASE CharAt(s, k) = "}" -> JsonOk(PyDict(more), k + 1)
      [] CharAt(s, k) = "," ->
            IF CharAt(s, n) = <<"\"">>[1] THEN ParseMembers(s, n, depth, more) ELSE JsonErr
      [] OTHER -> JsonErr

\* JSONObject after the key key: the colon, the value val and what follows it.
AfterKey(s, key, val, depth, pairs) ==
    IF val.st # "ok" THEN val
    ELSE AfterMember(s, SkipWs(s, val.i), SkipWs(s, SkipWs(s, val.i) + 1), depth,
                     DictSet(pairs, key.v.s, val.v))

\* JSONObject from the quote of a key at j; pairs holds the members read so far.
ParseMembers(s, j, depth, pairs) ==
    LET key == ScanString(s, j + 1) IN
    IF key.st # "ok" THEN key
    ELSE IF CharAt(s, SkipWs(s, key.i)) # ":" THEN JsonErr
    ELSE AfterKey(s, key, ParseValue(s, SkipWs(s, SkipWs(s, key.i) + 1), depth), depth, pairs)

\* JSONArray after the element val, which followed the elements items.
AfterElem(s, val, depth, items) ==
    IF val.st # "ok" THEN val
    ELSE CASE CharAt(s, SkipWs(s, val.i)) = "]" ->
                 JsonOk(PyList(Append(items, val.v)), SkipWs(s, val.i) + 1)
           [] CharAt(s, SkipWs(s, val.i)) = "," ->
                 ParseElems(s, SkipWs(s, SkipWs(s, val.i) + 1), depth, Append(items, val.v))
           [] OTHER -> JsonErr

\* JSONArray from the first character of an element at j.
ParseElems(s, j, depth, items) == AfterElem(s, ParseValue(s, j, depth), depth, items)

\* The value r the decoder read, if nothing but whitespace follows it.
WholeDocument(s, r) == IF r.st = "ok" /\ SkipWs(s, r.i) <= Len(s) THEN JsonErr ELSE r

\* json.loads(s): one value, whitespace around it, nothing after it.
JsonLoads(s) == WholeDocument(s, ParseValue(s, SkipWs(s, 1), 0))

(***************************************************************************)
(* URL Extractor.  A call returns a value or raises: [raised, v].          *)
(***************************************************************************)

Returns(v) == [raised |-> FALSE, v |-> v]
Raises == [raised |-> TRUE, v |-> PyNone]
EmptyStr == PyStr(<<>>)

\* _is_allowed_domain on any value: urlparse of a non-str raises or gives a
\* bytes host, and the except clause turns either into False.
AllowedValue(v) == IsStr(v) /\ _is_allowed_domain(v.s)

\* val.get("qqdocurl", "") or val.get("url", "") of a dict val.
UrlOfMeta(val) == PyOr(DictGet(val, <<"q","q","d","o","c","u","r","l">>, EmptyStr), DictGet(val, <<"u","r","l">>, EmptyStr))

\* The test of _find_qqdocurl on one value of meta.
IsCardUrl(val) == IsDict(val) /\ Truthy(UrlOfMeta(val)) /\ AllowedValue(UrlOfMeta(val))

\* A loop over meta that goes on to the last value that validates.
LastInMeta(pairs, i) ==
    IF \E n \in i..Len(pairs) : IsCardUrl(pairs[n][2])
    THEN UrlOfMeta(pairs[CHOOSE n \in i..Len(pairs) :
                            IsCardUrl(pairs[n][2]) /\ \A m \in (n + 1)..Len(pairs) : ~IsCardUrl(pairs[m][2])][2])
    ELSE EmptyStr

RECURSIVE FindInMeta(_, _)
\* The loop of _find_qqdocurl over meta.items() from pair i on.
FindInMeta(pairs, i) ==
    IF i > Len(pairs) THEN EmptyStr
    ELSE IF IsCardUrl(pairs[i][2]) THEN UrlOfMeta(pairs[i][2])
    ELSE FindInMeta(pairs, i + 1)

\* _find_qqdocurl once meta is data.get("meta").
FindInMetaOf(meta) == IF ~IsDict(meta) THEN EmptyStr ELSE FindInMeta(meta.items, 1)

_find_qqdocurl(data) == FindInMetaOf(DictGet(data, <<"m","e","t","a">>, PyNone))

\* _try_parse_json once json.loads has ended with r.  json.loads raising RecursionError
\* is not caught by except (json.JSONDecodeError, TypeError).
UrlOfLoaded(r) ==
    CASE r.st = "rec" -> Raises
      [] r.st = "ok" /\ IsDict(r.v) -> Returns(_find_qqdocurl(r.v))
      [] OTHER -> Returns(EmptyStr)

_try_parse_json(text) == UrlOfLoaded(JsonLoads(text))

\* The replacement chain of _extract_from_raw_message on cq_data.
CqUnescape(data) ==
    Replace(Replace(Replace(Replace(data, <<"&","a","m","p",";">>, <<"&">>), <<"&","#","4","4",";">>, <<",">>),
                    <<"&","#","9","1",";">>, <<"[">>), <<"&","#","9","3",";">>, <<"]">>)

\* str.strip() (the space is the only whitespace of the model).
Strip(s) ==
    IF \E i \in 1..Len(s) : s[i] # " "
    THEN SubSeq(s, SkipWs(s, 1),
                CHOOSE i \in 1..Len(s) : s[i] # " " /\ \A j \in (i + 1)..Len(s) : s[j] = " ")
    ELSE <<>>

CqPrefix == <<"[","C","Q",":","j","s","o","n",",","d","a","t","a","=">>

\* re.search(r'\[CQ:json,data=(.*?)\]', s, re.S): found and group(1).
CqMatch(s) ==
    LET p == FindSub(s, CqPrefix, 1)
        q == IF p = 0 THEN 0 ELSE Find(s, "]", p + Len(CqPrefix))
    IN  IF q = 0 THEN [found |-> FALSE, data |-> <<>>]
        ELSE [found |-> TRUE, data |-> SubSeq(s, p + Len(CqPrefix), q - 1)]

\* The call has ended with r: it raised, or found a URL.
Settled(r) == r.raised \/ Truthy(r.v)

\* What a branch that ended with r leaves the function to return.
OrEmpty(r) == IF Settled(r) THEN r ELSE Returns(EmptyStr)

\* json_str = inner.get("data", ""), for a dict inner, and the parse of it if it is a str.
InnerJson(json_str) == IF IsStr(json_str) THEN _try_parse_json(json_str.s) ELSE Returns(EmptyStr)

\* A OneBot segment's payload, for inner = seg.get("data", {}) a dict.
SegmentJson(inner) ==
    IF IsDict(inner) THEN InnerJson(DictGet(inner, <<"d","a","t","a">>, EmptyStr)) ELSE Returns(EmptyStr)

\* Branch 1 after _find_qqdocurl(raw) gave found.
DictAfterFind(raw, found) ==
    IF Truthy(found) THEN Returns(found)
    ELSE IF DictGet(raw, <<"t","y","p","e">>, PyNone) = PyStr(<<"j","s","o","n">>)
         THEN SegmentJson(DictGet(raw, <<"d","a","t","a">>, PyDict(<<>>)))
    ELSE Returns(EmptyStr)

\* Branch 1: raw is a dict.
ExtractDict(raw) == DictAfterFind(raw, _find_qqdocurl(raw))

\* Branch 2 on a segment that is a dict of type json, with inner = seg.get("data", {}).
ListInner(inner) ==
    IF IsDict(inner) THEN SegmentJson(inner)
    ELSE IF IsStr(inner) THEN _try_parse_json(inner.s)
    ELSE Returns(EmptyStr)

\* Branch 2 on one segment.
ListSegment(seg) ==
    IF ~IsDict(seg) THEN Returns(EmptyStr)
    ELSE IF DictGet(seg, <<"t","y","p","e">>, PyNone) # PyStr(<<"j","s","o","n">>) THEN Returns(EmptyStr)
    ELSE ListInner(DictGet(seg, <<"d","a","t","a">>, PyDict(<<>>)))

RECURSIVE ExtractList(_, _), ListAfter(_, _, _)

\* Branch 2 after segment i ended with r.
ListAfter(segs, i, r) == IF Settled(r) THEN r ELSE ExtractList(segs, i + 1)

\* Branch 2: the loop over the segments of a list from element i on.
ExtractList(segs, i) ==
    IF i > Len(segs) THEN Returns(EmptyStr) ELSE ListAfter(segs, i, ListSegment(segs[i]))

\* Branch 3b on the match cq_match.
StrCq(cq_match) ==
    IF cq_match.found THEN OrEmpty(_try_parse_json(CqUnescape(cq_match.data)))
    ELSE Returns(EmptyStr)

\* Branch 3 after 3a ended with direct.
StrAfterJson(raw_str, direct) == IF Settled(direct) THEN direct ELSE StrCq(CqMatch(raw_str))

\* Branch 3 on raw_str = raw.strip().
StrStripped(raw_str) ==
    StrAfterJson(raw_str,
                 IF StartsWith(raw_str, <<"{">>) THEN _try_parse_json(raw_str) ELSE Returns(EmptyStr))

\* Branch 3: raw is a str.
ExtractStr(raw) == StrStripped(Strip(raw))

_extract_from_raw_message(raw) ==
    CASE raw.t = "none" -> Returns(EmptyStr)
      [] raw.t = "dict" -> OrEmpty(ExtractDict(raw))
      [] raw.t = "list" -> ExtractList(raw.items, 1)
      [] raw.t = "str" -> ExtractStr(raw.s)
      [] OTHER -> Returns(EmptyStr)

(***************************************************************************)
(* Segment Flattener/Formatter                                             *)
(***************************************************************************)

IMAGE_SUFFIXES == { <<".","j","p","g">>, <<".","j","p","e","g">>, <<".","p","n","g">>, <<".","g","i","f">>, <<".","b","m","p">>, <<".","j","f","i","f">>, <<".","w","e","b","p">> }

\* PurePosixPath(path).name: the last component that is neither empty nor ".".
LastOf(kept) == IF kept = <<>> THEN <<>> ELSE kept[Len(kept)]

PathName(path) == LastOf(SelectSeq(Split(path, "/"), LAMBDA c : c # <<>> /\ c # <<".">>))

\* PurePosixPath(path).suffix: from the last dot of the name, unless the name starts
\* or ends with that dot.
SuffixOf(name) ==
    IF 1 < RFind(name, ".") /\ RFind(name, ".") < Len(name) THEN From(name, RFind(name, "."))
    ELSE <<>>

PathSuffix(path) == SuffixOf(PathName(path))

\* _is_image(msg) for a value of any type (URLs with ";" parameters are not modelled).
\* _is_image once urlparse has given parsed; its ValueError is caught.
ParsedIsImage(parsed) ==
    IF parsed.err THEN FALSE
    ELSE Lower(PathSuffix(parsed.path)) \in IMAGE_SUFFIXES

_is_image(msg) ==
    IF ~IsStr(msg) \/ msg.s = <<>> THEN FALSE
    ELSE ParsedIsImage(UrlSplit(msg.s))

RECURSIVE _flatten(_)
\* list(_flatten(container)): lists and tuples are opened, everything else is kept.
_flatten(container) ==
    IF container = <<>> THEN <<>>
    ELSE (IF IsList(Head(container)) THEN _flatten(Head(container).items)
          ELSE <<Head(container)>>) \o _flatten(Tail(container))

\* str(i) of an item that is no list.
PyStrOf(v) ==
    CASE v.t = "str" -> v.s
      [] v.t = "int" -> DigitsOf(v.n)
      [] v.t = "bool" -> IF v.b THEN <<"T","r","u","e">> ELSE <<"F","a","l","s","e">>
      [] OTHER -> <<"N","o","n","e">>

Plain(text) == [k |-> "Plain", v |-> text]
Image(u) == [k |-> "Image", v |-> u]

\* The URL _format_msg hands to Comp.Image.fromURL for an image item.
ImageUrl(i) ==
    IF StartsWith(i, <<"h","t","t","p">>) THEN i
    ELSE IF StartsWith(i, <<"/","/">>) THEN <<"h","t","t","p","s",":">> \o i
    ELSE <<"h","t","t","p","s",":","/","/">> \o i

\* A flush that appends the text buffer as a Plain whether or not it holds anything.
FlushAlways(segs, text_buffer) == Append(segs, Plain(text_buffer))

\* chain with the text buffer, if it holds anything, appended as one Plain.
Flush(segs, text_buffer) ==
    IF text_buffer # <<>> THEN Append(segs, Plain(text_buffer)) ELSE segs

RECURSIVE FormatLoop(_, _, _, _)
\* The loop of _format_msg from item n on, and the flush after it.
FormatLoop(items, n, segs, text_buffer) ==
    IF n > Len(items) THEN Flush(segs, text_buffer)
    ELSE LET i == items[n] IN
         IF ~Truthy(i) THEN FormatLoop(items, n + 1, segs, text_buffer)
         ELSE IF _is_image(i)
              THEN FormatLoop(items, n + 1,
                              Append(Flush(segs, text_buffer), Image(ImageUrl(i.s))), <<>>)
              ELSE FormatLoop(items, n + 1, segs, text_buffer \o PyStrOf(i))

_format_msg(list) == FormatLoop(_flatten(list), 1, <<>>, <<>>)

(***************************************************************************)
(* WBI signer (wbi.py).  A dict is the sequence of its items, <<key,       *)
(* value>>, in insertion order; keys are str.  Strings are ASCII, so a     *)
(* character is one byte.  MD5 is taken for injective: hexdigest is the    *)
(* lower-case hexadecimal of the bytes signed, an injective function with  *)
(* the digest's alphabet.                                                  *)
(***************************************************************************)

MIXIN_KEY_ENC_TAB ==
    << 46, 47, 18, 2, 53, 8, 23, 32, 15, 50, 10, 31, 58, 3, 45, 35, 27, 43, 5, 49,
       33, 9, 42, 19, 29, 28, 14, 39, 12, 38, 41, 13, 37, 48, 7, 16, 24, 55, 40,
       61, 26, 17, 0, 1, 60, 51, 30, 4, 22, 25, 54, 21, 56, 59, 6, 63, 57, 62, 11,
       36, 20, 34, 44, 52 >>

\* reduce(lambda s, i: s + orig[i], MIXIN_KEY_ENC_TAB, "")[:32]
get_mixin_key(orig) ==
    SubSeq([i \in 1..Len(MIXIN_KEY_ENC_TAB) |-> orig[MIXIN_KEY_ENC_TAB[i] + 1]], 1, 32)

\* chr(n)
ChrTable == [n \in Range(AsciiCodes) |-> Ascii[IndexOf(AsciiCodes, n)]]
Chr(n) == ChrTable[n]

HexUpper == <<"0","1","2","3","4","5","6","7","8","9","A","B","C","D","E","F">>
HexLower == <<"0","1","2","3","4","5","6","7","8","9","a","b","c","d","e","f">>

\* The two hexadecimal digits of the byte n, in the digits given.
HexByte(n, digits) == <<digits[(n \div 16) + 1], digits[(n % 16) + 1]>>

\* The characters urllib.parse.quote_plus leaves as they are.
AlwaysSafe == Letters \cup Range(Digits) \cup {"_", ".", "-", "~"}

\* urllib.parse.quote_plus(s)
QuotePlus(s) ==
    Concat([i \in 1..Len(s) |->
               IF s[i] \in AlwaysSafe THEN <<s[i]>>
               ELSE IF s[i] = " " THEN <<"+">>
               ELSE <<"%">> \o HexByte(Ord(s[i]), HexUpper)])

\* urllib.parse.urlencode(d) for a dict of str keys and str values.
UrlEncode(items) ==
    Join([i \in 1..Len(items) |-> QuotePlus(items[i][1]) \o <<"=">> \o QuotePlus(items[i][2])],
         <<"&">>)

\* md5(s.encode()).hexdigest(), with MD5 taken for injective.
Md5Hex(s) == [i \in 1..(2 * Len(s)) |-> HexByte(Ord(s[(i + 1) \div 2]), HexLower)[2 - (i % 2)]]

RECURSIVE InsertPair(_, _)
\* The sorted items sorted with item inserted, after the items with no greater key.
InsertPair(sorted, item) ==
    IF sorted = <<>> THEN <<item>>
    ELSE IF StrLess(item[1], sorted[1][1]) THEN <<item>> \o sorted
    ELSE <<sorted[1]>> \o InsertPair(Tail(sorted), item)

RECURSIVE SortedFrom(_, _)
SortedFrom(sorted, items) ==
    IF items = <<>> THEN sorted
    ELSE SortedFrom(InsertPair(sorted, Head(items)), Tail(items))

\* The items in the order given: no sort.
Unsorted(items) == items

\* sorted(params.items()): the items by ascending key.
SortPairs(items) == SortedFrom(<<>>, items)

\* str(v), whatever its characters.
KeepValue(v) == PyStrOf(v)

\* "".join(filter(lambda ch: ch not in "!'()*", str(v)))
FilterValue(v) ==
    LET text == PyStrOf(v) IN
    Concat([i \in 1..Len(text) |-> IF text[i] \in {"!", "'", "(", ")", "*"} THEN <<>> ELSE <<text[i]>>])

\* A signer that works on the caller's dict itself and returns it.
EncWbiInPlace(params, img_key, sub_key, t) ==
    LET mixin_key == get_mixin_key(img_key \o sub_key)
        stamped == DictSet(params, <<"w","t","s">>, PyInt(t))
        sorted == SortPairs(stamped)
        filtered == [i \in 1..Len(sorted) |-> <<sorted[i][1], FilterValue(sorted[i][2])>>]
        signed == DictSet(filtered, <<"w","_","r","i","d">>, Md5Hex(UrlEncode(filtered) \o mixin_key))
    IN  [ret |-> signed, params |-> signed]

\* enc_wbi(params, img_key, sub_key) when round(time.time()) is t: the dict it returns,
\* and the caller's dict as the call leaves it.
enc_wbi(params, img_key, sub_key, t) ==
    LET mixin_key == get_mixin_key(img_key \o sub_key)
        stamped == DictSet(params, <<"w","t","s">>, PyInt(t))
        sorted == SortPairs(stamped)
        filtered == [i \in 1..Len(sorted) |-> <<sorted[i][1], FilterValue(sorted[i][2])>>]
        query == UrlEncode(filtered)
        wbi_sign == Md5Hex(query \o mixin_key)
    IN  [ret |-> DictSet(filtered, <<"w","_","r","i","d">>, wbi_sign), params |-> stamped]

(***************************************************************************)
(* WBI key cache (wbi.py).  The clock counts ticks; the cache's time to    *)
(* live, 30 minutes, is 3 ticks, and the 15 seconds a request may take are *)
(* less than a tick: a request answered in time is answered at most one    *)
(* tick after the call read the clock.                                     *)
(***************************************************************************)

\* _WBI_KEY_TTL = 30 * 60 seconds, in ticks.
_WBI_KEY_TTL == 3

\* A request that may take as long as a cache entry lives.
LongTimeout == _WBI_KEY_TTL

\* aiohttp.ClientTimeout(total=15): the ticks that may pass before the response is read.
RequestTimeout == 1

Callers == {"c1", "c2"}

NoCache == <<>>
NoKeys == <<>>
NoResponse == [status |-> 0, body |-> PyNone]

\* A cache test that still takes an entry for fresh when its age is the time to live.
CacheIsFreshInclusive(entry, t) == entry # NoCache /\ t - entry[3] <= _WBI_KEY_TTL

\* The test of get_wbi_keys on the cache: an entry, and now - cached_at < _WBI_KEY_TTL.
CacheIsFresh(entry, t) == entry # NoCache /\ t - entry[3] < _WBI_KEY_TTL

\* A status test that takes every status for success.
StatusAny(status) == status = status

\* An HTTP status that get_wbi_keys takes for success.
StatusOk(status) == status = 200

\* A store that replaces the cached fields one by one and stops after the first.
NewEntryPartial(img_key, sub_key, t) ==
    IF _wbi_key_cache = NoCache THEN <<img_key, sub_key, t>>
    ELSE <<img_key, _wbi_key_cache[2], _wbi_key_cache[3]>>

\* A store that stamps the entry with the clock at the time of the store.
NewEntryLater(img_key, sub_key, t) == <<img_key, sub_key, clock>>

\* The entry get_wbi_keys stores for a fetch by a call that read the clock at t.
NewEntry(img_key, sub_key, t) == <<img_key, sub_key, t>>

\* d[k] for any value d: ok and the value, or not ok (KeyError, TypeError).
Subscript(d, k) ==
    IF d.ok /\ IsDict(d.v) /\ HasKey(d.v, k) THEN [ok |-> TRUE, v |-> DictGet(d.v, k, PyNone)]
    ELSE [ok |-> FALSE, v |-> PyNone]

\* url.rsplit("/", 1)[1].split(".")[0]: ok and the key, or not ok (IndexError).
KeyOfUrl(u) ==
    LET i == RFind(u, "/") IN
    IF i = 0 THEN [ok |-> FALSE, key |-> <<>>]
    ELSE [ok |-> TRUE, key |-> Split(From(u, i + 1), ".")[1]]

\* Lines 82 to 85 of wbi.py on the parsed nav response.
KeysFrom(json_content) ==
    LET wbi_img == Subscript(Subscript([ok |-> TRUE, v |-> json_content], <<"d","a","t","a">>), <<"w","b","i","_","i","m","g">>)
        img_url == Subscript(wbi_img, <<"i","m","g","_","u","r","l">>)
        sub_url == Subscript(wbi_img, <<"s","u","b","_","u","r","l">>)
        img_key == KeyOfUrl(img_url.v.s)
        sub_key == KeyOfUrl(sub_url.v.s)
    IN  IF img_url.ok /\ sub_url.ok /\ IsStr(img_url.v) /\ IsStr(sub_url.v)
           /\ img_key.ok /\ sub_key.ok
        THEN [ok |-> TRUE, img_key |-> img_key.key, sub_key |-> sub_key.key]
        ELSE [ok |-> FALSE, img_key |-> <<>>, sub_key |-> <<>>]

\* The call has no session: it has not reached the lines that take or make one.
NoLocalSession == [made |-> 0, open |-> FALSE, closes |-> 0]

\* session = aiohttp.ClientSession(): a session the call made, open, close() not yet called.
MadeSession == [made |-> 1, open |-> TRUE, closes |-> 0]

\* The session the caller passed in.
SuppliedSession == [made |-> 0, open |-> TRUE, closes |-> 0]

\* A finally clause that closes whatever session the call used.
ClosesAny(owns) == TRUE

\* if owns_session: in the finally clause
ClosesSession(owns) == owns

\* session.close() is called in the call of p.
CloseCalled(p) == [session EXCEPT ![p].closes = @ + 1]

InFlight == {"get", "json", "closing"}

\* The call of p begins: it reads the clock and the cache, and either returns the
\* cached pair or, with its own or the supplied session, issues the request.
Start(p, supplied) ==
    /\ pc[p] \in {"idle", "returned", "raised"}
    /\ now' = [now EXCEPT ![p] = clock]
    /\ cache0' = [cache0 EXCEPT ![p] = _wbi_key_cache]
    /\ writes' = [writes EXCEPT ![p] = 0]
    /\ resp' = [resp EXCEPT ![p] = NoResponse]
    /\ exc' = [exc EXCEPT ![p] = "none"]
    /\ alone' = [q \in Callers |->
                    IF q = p THEN \A o \in Callers \ {p} : pc[o] \notin InFlight
                    ELSE IF pc[q] \in InFlight THEN FALSE ELSE alone[q]]
    /\ IF CacheIsFresh(_wbi_key_cache, clock)
       THEN /\ pc' = [pc EXCEPT ![p] = "returned"]
            /\ ret' = [ret EXCEPT ![p] = <<_wbi_key_cache[1], _wbi_key_cache[2]>>]
            /\ reqs' = [reqs EXCEPT ![p] = 0]
            /\ owns_session' = [owns_session EXCEPT ![p] = FALSE]
            /\ session' = [session EXCEPT ![p] = NoLocalSession]
            /\ UNCHANGED sent
       ELSE /\ pc' = [pc EXCEPT ![p] = "get"]
            /\ ret' = [ret EXCEPT ![p] = NoKeys]
            /\ reqs' = [reqs EXCEPT ![p] = 1]
            /\ owns_session' = [owns_session EXCEPT ![p] = ~supplied]
            /\ session' = [session EXCEPT ![p] = IF ~supplied THEN MadeSession ELSE SuppliedSession]
            /\ sent' = [sent EXCEPT ![p] = clock]
    /\ UNCHANGED <<clock, _wbi_key_cache, origin>>

\* The exception e leaves the try block of p: the finally clause closes the session
\* the call owns, and the exception goes on to the caller.
Leave(p, e) ==
    /\ exc' = [exc EXCEPT ![p] = e]
    /\ pc' = [pc EXCEPT ![p] = IF ClosesSession(owns_session[p]) THEN "closing" ELSE "raised"]
    /\ session' = IF ClosesSession(owns_session[p]) THEN CloseCalled(p) ELSE session
    /\ resp' = [resp EXCEPT ![p] = NoResponse]

\* Lines 82 to 88 for p: the keys of the response, the cache and the return.
Finish(p) ==
    LET k == KeysFrom(resp[p].body) IN
    /\ resp' = [resp EXCEPT ![p] = NoResponse]
    /\ IF k.ok
       THEN /\ _wbi_key_cache' = NewEntry(k.img_key, k.sub_key, now[p])
            /\ origin' = sent[p]
            /\ writes' = [writes EXCEPT ![p] = @ + 1]
            /\ ret' = [ret EXCEPT ![p] = <<k.img_key, k.sub_key>>]
            /\ pc' = [pc EXCEPT ![p] = "returned"]
            /\ UNCHANGED exc
       ELSE /\ exc' = [exc EXCEPT ![p] = "KeyError"]
            /\ pc' = [pc EXCEPT ![p] = "raised"]
            /\ UNCHANGED <<_wbi_key_cache, origin, writes, ret>>

\* The response r to the request of p arrives before the timeout.
Respond(p, r) ==
    /\ pc[p] = "get"
    /\ clock - now[p] <= RequestTimeout
    /\ IF StatusOk(r.status)
       THEN /\ pc' = [pc EXCEPT ![p] = "json"]
            /\ resp' = [resp EXCEPT ![p] = r]
            /\ UNCHANGED <<exc, session>>
       ELSE Leave(p, "RuntimeError")
    /\ UNCHANGED <<clock, _wbi_key_cache, now, owns_session, ret, reqs, writes,
                   cache0, alone, sent, origin>>

\* The request of p, or the reading of its response, fails (a transport error, the
\* timeout) or the task of p is cancelled while it awaits.
Abort(p, e) ==
    /\ pc[p] \in {"get", "json"}
    /\ Leave(p, e)
    /\ UNCHANGED <<clock, _wbi_key_cache, now, owns_session, ret, reqs,
                   writes, cache0, alone, sent, origin>>

\* await resp.json() of p returns before the timeout.
ReadJson(p) ==
    /\ pc[p] = "json"
    /\ clock - now[p] <= RequestTimeout
    /\ IF ClosesSession(owns_session[p])
       THEN /\ pc' = [pc EXCEPT ![p] = "closing"]
            /\ session' = CloseCalled(p)
            /\ UNCHANGED <<_wbi_key_cache, origin, writes, ret, exc, resp>>
       ELSE Finish(p) /\ UNCHANGED session
    /\ UNCHANGED <<clock, now, owns_session, reqs, cache0, alone, sent>>

\* The task of p is cancelled while it awaits session.close() in the finally clause:
\* the close is left undone and the lines after the try statement are not run.
CancelClose(p) ==
    /\ pc[p] = "closing"
    /\ exc' = [exc EXCEPT ![p] = "CancelledError"]
    /\ pc' = [pc EXCEPT ![p] = "raised"]
    /\ resp' = [resp EXCEPT ![p] = NoResponse]
    /\ UNCHANGED <<clock, _wbi_key_cache, now, owns_session, session, ret, reqs, writes,
                   cache0, alone, sent, origin>>

\* await session.close() of p returns; the call raises what it was raising, or goes on.
Closed(p) ==
    /\ pc[p] = "closing"
    /\ session' = [session EXCEPT ![p].open = FALSE]
    /\ IF exc[p] # "none"
       THEN /\ pc' = [pc EXCEPT ![p] = "raised"]
            /\ UNCHANGED <<_wbi_key_cache, origin, writes, ret, exc, resp>>
       ELSE Finish(p)
    /\ UNCHANGED <<clock, now, owns_session, reqs, cache0, alone, sent>>

\* The last tick of the clock the model looks at.
MaxTime == 3

\* Time passes.  Closing a session waits for nothing, so no tick passes during it.
Tick ==
    /\ clock < MaxTime
    /\ \A p \in Callers : pc[p] # "closing"
    /\ clock' = clock + 1
    /\ UNCHANGED <<_wbi_key_cache, pc, now, owns_session, session, resp, exc, ret, reqs,
                   writes, cache0, alone, sent, origin>>

ImgKeyA == <<"7","c","d","0","8","4","9","4","1","3","3","8","4","8","4","a","a","e","1","a","d","9","4","2","5","b","8","4","0","7","7","c">>
SubKeyA == <<"4","9","3","2","c","a","f","f","0","f","f","7","4","6","e","a","b","6","f","0","1","b","f","0","8","b","7","0","a","c","4","5">>
ImgKeyB == <<"6","5","3","6","5","7","f","5","2","4","a","5","4","7","a","c","9","8","1","d","e","d","7","2","e","a","1","7","2","0","5","7">>
SubKeyB == <<"6","e","4","9","0","9","c","7","0","2","f","8","4","6","7","2","8","e","6","4","f","6","0","0","7","7","3","6","a","3","3","8">>

WbiUrl(key) == <<"h","t","t","p","s",":","/","/","i","0",".","h","d","s","l","b",".","c","o","m","/","b","f","s","/","w","b","i","/">> \o key \o <<".","p","n","g">>

\* The body of a nav response with the given members of data.wbi_img.
NavBody(wbi_img) ==
    PyDict(<< << <<"c","o","d","e">>, PyInt(0) >>,
              << <<"d","a","t","a">>, PyDict(<< << <<"i","s","L","o","g","i","n">>, PyBool(FALSE) >>,
                                    << <<"w","b","i","_","i","m","g">>, PyDict(wbi_img) >> >>) >> >>)

BodyA == NavBody(<< << <<"i","m","g","_","u","r","l">>, PyStr(WbiUrl(ImgKeyA)) >>, << <<"s","u","b","_","u","r","l">>, PyStr(WbiUrl(SubKeyA)) >> >>)
BodyB == NavBody(<< << <<"i","m","g","_","u","r","l">>, PyStr(WbiUrl(ImgKeyB)) >>, << <<"s","u","b","_","u","r","l">>, PyStr(WbiUrl(SubKeyB)) >> >>)
BodyNoSub == NavBody(<< << <<"i","m","g","_","u","r","l">>, PyStr(WbiUrl(ImgKeyB)) >> >>)
BodyNoSlash == NavBody(<< << <<"i","m","g","_","u","r","l">>, PyStr(WbiUrl(ImgKeyB)) >>, << <<"s","u","b","_","u","r","l">>, PyStr(SubKeyB) >> >>)

\* The responses the nav endpoint gives: the current keys, rotated keys, a refusal that
\* still carries a body, and bodies without a usable sub_url.
NavResponses ==
    { [status |-> 200, body |-> BodyA], [status |-> 200, body |-> BodyB],
      [status |-> 412, body |-> BodyB],
      [status |-> 200, body |-> BodyNoSub], [status |-> 200, body |-> BodyNoSlash] }

AbortKinds == {"ClientError", "CancelledError"}

(***************************************************************************)
(* The plugin (main.py, class BilibiliAnalysis): its configuration, the    *)
(* ClientSession it holds, the two message handlers and terminate.  The    *)
(* handlers and terminate are coroutines on one event loop: a step of the  *)
(* model runs a coroutine from one suspension point to the next.  The      *)
(* resolvers b23_extract, search_bili_by_title and bili_keyword belong to  *)
(* another module; a call of one is a suspension that ends with any result *)
(* or with an exception.  Texts are ASCII, so the alternatives of          *)
(* BILI_PATTERN with other characters never match, and the command word of *)
(* search_video is written CommandWord.                                    *)
(***************************************************************************)

Handlers == {"h1", "h2"}

\* self._session = None
NoSession == 0

\* A local that has not been assigned.
Unset == [t |-> "unset"]

\* A ClientSession as ClientSession(...) returns it.
NewSession == [closed |-> FALSE, closes |-> 0]

\* [str(g) for g in config.get("group_list", [])]
GroupListOf(configured) == [i \in 1..Len(configured) |-> PyStr(PyStrOf(configured[i]))]

\* An allow-all test in place of _check_group.
AllowAll(group_id, mode, list) == TRUE

\* self._check_group(group_id), for self.group_whitelist_mode = mode and self.group_list = list.
_check_group(group_id, mode, list) ==
    IF ~Truthy(group_id) \/ list = <<>> THEN TRUE
    ELSE IF mode THEN group_id \in Range(list)
    ELSE group_id \notin Range(list)

\* event.message_obj.group_id if event.message_obj else None
GroupIdOf(ev) == IF ev.has_obj THEN ev.group_id ELSE PyNone

WordChars == Letters \cup Range(Digits) \cup {"_"}

\* \b in front of position i of s, where s[i] is a word character.
BoundaryBefore(s, i) == i = 1 \/ s[i - 1] \notin WordChars

HasSub(s, sub) == FindSub(s, sub, 1) # 0

\* (b23\.tv)|(bili(22|23|33|2233)\.cn) on a lower-cased text.
ShortLinkIn(t) ==
    \/ HasSub(t, <<"b","2","3",".","t","v">>)
    \/ \E n \in {<<"2","2">>, <<"2","3">>, <<"3","3">>, <<"2","2","3","3">>} : HasSub(t, <<"b","i","l","i">> \o n \o <<".","c","n">>)

\* re.search(r"(b23\.tv)|(bili(22|23|33|2233)\.cn)", text, re.I)
ShortLinkSearch(text) == ShortLinkIn(Lower(text))

\* \b(av|cv)(\d+) on a lower-cased text.
AvCvIn(t) ==
    \E i \in 1..Len(t) :
        /\ BoundaryBefore(t, i)
        /\ IsAt(t, i, <<"a","v">>) \/ IsAt(t, i, <<"c","v">>)
        /\ i + 2 <= Len(t)
        /\ t[i + 2] \in Range(Digits)

\* \b(BV([a-zA-Z0-9]{10})+) on a lower-cased text.
BvIn(t) ==
    \E i \in 1..Len(t) :
        /\ BoundaryBefore(t, i)
        /\ IsAt(t, i, <<"b","v">>)
        /\ i + 11 <= Len(t)
        /\ \A j \in (i + 2)..(i + 11) : t[j] \in Letters \cup Range(Digits)

\* BILI_PATTERN on a lower-cased ASCII text.
BiliPatternIn(t) == ShortLinkIn(t) \/ HasSub(t, <<".","b","i","l","i","b","i","l","i",".","c","o","m">>) \/ AvCvIn(t) \/ BvIn(t)

\* BILI_PATTERN.search(text)
BiliPatternSearch(text) == BiliPatternIn(Lower(text))

\* getattr(comp, "raw", None) or getattr(comp, "data", None)
CompRaw(comp) == PyOr(comp.raw, comp.data)

RECURSIVE FromComps(_, _), AfterComp(_, _, _)

\* The loop over event.message_obj.message after component i gave r.
AfterComp(comps, i, r) == IF Settled(r) THEN r ELSE FromComps(comps, i + 1)

\* The loop over event.message_obj.message from component i on.
FromComps(comps, i) ==
    IF i > Len(comps) THEN Returns(EmptyStr)
    ELSE IF ~Truthy(CompRaw(comps[i])) THEN FromComps(comps, i + 1)
    ELSE AfterComp(comps, i, _extract_from_raw_message(CompRaw(comps[i])))

\* json_url after the raw message gave r.
AfterRaw(ev, r) == IF Settled(r) \/ ev.message = <<>> THEN r ELSE FromComps(ev.message, 1)

\* json_url as the message object gives it.
FromMessageObj(ev) ==
    IF ev.has_obj THEN AfterRaw(ev, _extract_from_raw_message(ev.raw_message))
    ELSE Returns(EmptyStr)

\* json_url after the message object gave r: the message text may itself be JSON.
AfterMessageObj(text, r) ==
    IF Settled(r) \/ ~StartsWith(text, <<"{">>) THEN r ELSE _try_parse_json(text)

\* on_message's json_url for the event ev, or that computing it raised.
JsonUrl(ev) == AfterMessageObj(Strip(ev.message_str), FromMessageObj(ev))

\* on_message goes on to resolve: a card URL was found or the text matches BILI_PATTERN.
Resolves(json_url, text) == Truthy(json_url) \/ (text # <<>> /\ BiliPatternSearch(text))

\* The text on_message resolves.
ResolvedText(json_url, text) == IF Truthy(json_url) THEN json_url.s ELSE text

\* The command word of search_video, three characters long.
CommandWord == <<"s","v","p">>

\* text with the first of the prefixes "/" + CommandWord and CommandWord removed.
WithoutPrefix(text) ==
    IF StartsWith(text, <<"/">> \o CommandWord) THEN Strip(From(text, Len(CommandWord) + 2))
    ELSE IF StartsWith(text, CommandWord) THEN Strip(From(text, Len(CommandWord) + 1))
    ELSE text

\* self._session is None or self._session.closed
NeedsSession == _session = NoSession \/ sessions[_session].closed

\* The session _get_session returns.
GotSession == IF NeedsSession THEN Len(sessions) + 1 ELSE _session

\* await self._get_session() in handler h; the coroutine has no suspension point.
_get_session(h) ==
    /\ sessions' = IF NeedsSession THEN Append(sessions, NewSession) ELSE sessions
    /\ _session' = GotSession
    /\ hsession' = [hsession EXCEPT ![h] = GotSession]

\* Handler h goes to position to with text as its text, having done what did lists.
Continue(h, to, text, did) ==
    /\ hpc' = [hpc EXCEPT ![h] = to]
    /\ htext' = [htext EXCEPT ![h] = text]
    /\ hlog' = [hlog EXCEPT ![h] = hlog[h] \o did]

\* Handler h returns, having done what did lists.
Return(h, did) ==
    /\ Continue(h, "done", htext[h], did)
    /\ UNCHANGED <<_session, sessions, hsession>>

\* The steps after msg: event.stop_event(), then whatever is yielded.
StopThenReply(reply) == <<"stop">> \o reply

\* What a handler yields for a truthy msg: the str, or the chain if it holds anything.
ReplyFor(msg) ==
    IF IsStr(msg) \/ _format_msg(msg.items) # <<>> THEN <<"reply">> ELSE <<>>

\* on_message from the try statement on, once json_url is known.
OnMessageResolve(h, text) ==
    /\ _get_session(h)
    /\ Continue(h, IF ShortLinkSearch(text) THEN "b23" ELSE "keyword", text, <<"call">>)

\* on_message from the computation of json_url on; json_url is r.
OnMessageAfterUrl(h, ev, r) ==
    IF r.raised
    THEN Continue(h, "raised", htext[h], <<>>) /\ UNCHANGED <<_session, sessions, hsession>>
    ELSE IF ~Resolves(r.v, Strip(ev.message_str)) THEN Return(h, <<>>)
    ELSE OnMessageResolve(h, ResolvedText(r.v, Strip(ev.message_str)))

\* The framework calls on_message with the event ev; it runs to its first suspension.
OnMessage(h, ev) ==
    /\ hpc[h] = "idle"
    /\ tpc # "done"
    /\ handler' = [handler EXCEPT ![h] = "on_message"]
    /\ event' = [event EXCEPT ![h] = ev]
    /\ IF ~enable_auto_parse THEN Return(h, <<>>)
       ELSE IF ~_check_group(GroupIdOf(ev), group_whitelist_mode, group_list) THEN Return(h, <<>>)
       ELSE OnMessageAfterUrl(h, ev, JsonUrl(ev))
    /\ UNCHANGED <<enable_auto_parse, enable_search, group_whitelist_mode, group_list, tpc, hmsg>>

\* search_video once the prefix is off the text.
SearchVideoFor(h, text) ==
    IF text = <<>> THEN Return(h, <<"reply">>)
    ELSE /\ _get_session(h)
         /\ Continue(h, "search", text, <<"stop", "call">>)

\* The framework calls search_video with the event ev; it runs to its first suspension.
SearchVideo(h, ev) ==
    /\ hpc[h] = "idle"
    /\ tpc # "done"
    /\ handler' = [handler EXCEPT ![h] = "search_video"]
    /\ event' = [event EXCEPT ![h] = ev]
    /\ IF ~enable_search THEN Return(h, <<>>)
       ELSE IF ~_check_group(GroupIdOf(ev), group_whitelist_mode, group_list) THEN Return(h, <<>>)
       ELSE SearchVideoFor(h, WithoutPrefix(Strip(ev.message_str)))
    /\ UNCHANGED <<enable_auto_parse, enable_search, group_whitelist_mode, group_list, tpc, hmsg>>

\* What the steps of a running handler leave alone.
HandlerFrame ==
    UNCHANGED <<enable_auto_parse, enable_search, group_whitelist_mode, group_list, tpc,
                handler, event, _session, sessions, hsession>>

\* b23_extract returns the text it resolved the short link to.
B23Returns(h, text) ==
    /\ hpc[h] = "b23"
    /\ Continue(h, "keyword", text, <<"call">>)
    /\ UNCHANGED hmsg
    /\ HandlerFrame

\* search_bili_by_title returns search_url.
SearchReturns(h, search_url) ==
    /\ hpc[h] = "search"
    /\ IF ~Truthy(search_url) THEN Continue(h, "done", htext[h], <<"reply">>)
       ELSE Continue(h, "keyword", htext[h], <<"call">>)
    /\ UNCHANGED hmsg
    /\ HandlerFrame

\* bili_keyword returns msg.
KeywordReturns(h, msg) ==
    /\ hpc[h] = "keyword"
    /\ hmsg' = [hmsg EXCEPT ![h] = msg]
    /\ IF handler[h] = "on_message"
       THEN Continue(h, "done", htext[h], IF Truthy(msg) THEN StopThenReply(ReplyFor(msg)) ELSE <<>>)
       ELSE Continue(h, "done", htext[h], IF Truthy(msg) THEN ReplyFor(msg) ELSE <<"reply">>)
    /\ HandlerFrame

\* The resolver handler h awaits raises an Exception: on_message logs it and returns,
\* search_video yields a notice.
ResolverRaises(h) ==
    /\ hpc[h] \in {"b23", "search", "keyword"}
    /\ Continue(h, "done", htext[h],
                IF handler[h] = "on_message" THEN <<"except">> ELSE <<"except", "reply">>)
    /\ UNCHANGED hmsg
    /\ HandlerFrame

\* What terminate leaves alone.
TerminateFrame ==
    UNCHANGED <<enable_auto_parse, enable_search, group_whitelist_mode, group_list,
                hpc, handler, event, htext, hsession, hmsg, hlog>>

\* terminate up to the await of close(): the session counts as closed from here on.
TerminateClose ==
    /\ tpc = "idle"
    /\ IF _session # NoSession /\ ~sessions[_session].closed
       THEN /\ sessions' = [sessions EXCEPT ![_session] =
                                [closed |-> TRUE, closes |-> sessions[_session].closes + 1]]
            /\ tpc' = "closing"
       ELSE /\ tpc' = "done"
            /\ UNCHANGED sessions
    /\ UNCHANGED _session
    /\ TerminateFrame

\* terminate after close() has returned: self._session = None.
TerminateReturn ==
    /\ tpc = "closing"
    /\ _session' = NoSession
    /\ tpc' = "done"
    /\ UNCHANGED sessions
    /\ TerminateFrame

(***************************************************************************)
(* Each part of the program is checked by a specification of its own; the  *)
(* variables of the other parts then rest at these values.                 *)
(***************************************************************************)

\* The validator is not running.
DomainIdle ==
    /\ vpc = "off"
    /\ urlParts = <<>>
    /\ url = <<>>
    /\ allowed = FALSE

\* The extractor is not running.
ExtractIdle ==
    /\ xpc = "off"
    /\ rawParts = <<>>
    /\ raw_message = PyNone
    /\ extracted = Returns(EmptyStr)

\* No CQ round trip is running.
CqIdle ==
    /\ cpc = "off"
    /\ payload = <<>>
    /\ cq_data = <<>>

\* The formatter is not running.
FormatIdle ==
    /\ fpc = "off"
    /\ msg_list = <<>>
    /\ chain = <<>>

\* Nothing is being signed.
SignIdle ==
    /\ spc = "off"
    /\ qpc = "off"
    /\ given_params = <<>>
    /\ caller_params = <<>>
    /\ signed_params = <<>>
    /\ other_params = <<>>
    /\ other_signed = <<>>
    /\ variation = "none"
    /\ query_string = <<>>

\* No call of get_wbi_keys is running, and none has run.
CallsIdle ==
    /\ _wbi_key_cache = NoCache
    /\ pc = [p \in Callers |-> "off"]
    /\ now = [p \in Callers |-> 0]
    /\ owns_session = [p \in Callers |-> FALSE]
    /\ session = [p \in Callers |-> NoLocalSession]
    /\ resp = [p \in Callers |-> NoResponse]
    /\ exc = [p \in Callers |-> "none"]
    /\ ret = [p \in Callers |-> NoKeys]
    /\ reqs = [p \in Callers |-> 0]
    /\ writes = [p \in Callers |-> 0]
    /\ cache0 = [p \in Callers |-> NoCache]
    /\ alone = [p \in Callers |-> TRUE]
    /\ sent = [p \in Callers |-> 0]
    /\ origin = 0

CacheIdle == clock = 0 /\ CallsIdle

\* The plugin is not loaded.
PluginIdle ==
    /\ enable_auto_parse = FALSE
    /\ enable_search = FALSE
    /\ group_whitelist_mode = FALSE
    /\ group_list = <<>>
    /\ _session = NoSession
    /\ sessions = <<>>
    /\ tpc = "off"
    /\ hpc = [h \in Handlers |-> "off"]
    /\ handler = [h \in Handlers |-> "none"]
    /\ event = [h \in Handlers |-> <<>>]
    /\ htext = [h \in Handlers |-> <<>>]
    /\ hsession = [h \in Handlers |-> NoSession]
    /\ hmsg = [h \in Handlers |-> Unset]
    /\ hlog = [h \in Handlers |-> <<>>]

(***************************************************************************)
(* The validator under test: a URL is put together from a scheme prefix,   *)
(* user info, a host given as labels, a port and a tail, and is handed to  *)
(* _is_allowed_domain as one string.                                       *)
(***************************************************************************)

\* The most labels a host under test has.
MaxLabels == 3

HostLabels ==
    { <<"b","i","l","i","b","i","l","i">>, <<"c","o","m">>, <<"b","2","3">>, <<"t","v">>, <<"n","o","t","b","i","l","i","b","i","l","i">>, <<"B","i","l","i","B","i","l","i">>, <<>> }

Hosts == UNION { [1..n -> HostLabels] : n \in 0..MaxLabels }

\* What stands before the host: a scheme with "//" or "//" alone (the URL then has a
\* network location), or something without "//" (it has none).
NetPrefixes == { <<"h","t","t","p","s",":","/","/">>, <<"H","T","T","P",":","/","/">>, <<"/","/">> }
NoNetPrefixes == { <<>>, <<"h","t","t","p","s",":">>, <<"h","t","t","p","s",":","/">> }
UserInfos == { <<>>, <<"b","i","l","i","b","i","l","i",".","c","o","m","@">>, <<"u",":","b","2","3",".","t","v","@">> }
Ports == { <<>>, <<":","8","0">> }
UrlTails == { <<>>, <<"/","@","b","i","l","i","b","i","l","i",".","c","o","m">>, <<"?","u","=",".","b","i","l","i","b","i","l","i",".","c","o","m">>, <<"#",".","b","2","3",".","t","v">> }

\* Without "//" the host must not be empty, or the tail would be read as the host.
UrlParts ==
    [prefix : NetPrefixes, user : {<<>>}, labels : Hosts, port : {<<>>}, tail : UrlTails,
     bracket : {FALSE}]
    \cup [prefix : { <<"h","t","t","p","s",":","/","/">> }, user : UserInfos, labels : Hosts, port : Ports,
          tail : { <<"/","v","i","d","e","o">> }, bracket : BOOLEAN]
    \cup { p \in [prefix : NoNetPrefixes, user : {<<>>}, labels : Hosts, port : Ports,
                  tail : { <<"/","v","i","d","e","o">> }, bracket : {FALSE}] :
             Join(p.labels, <<".">>) # <<>> }

\* The URL string of the parts; bracket puts an unmatched "[" before the host.
UrlOf(p) ==
    p.prefix \o p.user \o (IF p.bracket THEN <<"[">> ELSE <<>>)
        \o Join(p.labels, <<".">>) \o p.port \o p.tail

DomainInit ==
    /\ vpc = "ready"
    /\ urlParts \in UrlParts
    /\ url = UrlOf(urlParts)
    /\ allowed = FALSE
    /\ ExtractIdle /\ CqIdle /\ FormatIdle /\ CacheIdle /\ SignIdle /\ PluginIdle

\* A call _is_allowed_domain(url).
Validate ==
    /\ vpc = "ready"
    /\ vpc' = "done"
    /\ allowed' = _is_allowed_domain(url)
    /\ UNCHANGED <<urlParts, url>>
    /\ UNCHANGED <<extractVars, cqVars, formatVars, cacheVars, signVars, pluginVars>>

DomainNext == Validate

SpecDomain == DomainInit /\ [][DomainNext]_vars

RECURSIVE DropTrailingEmpty(_)
DropTrailingEmpty(labels) ==
    IF labels # <<>> /\ labels[Len(labels)] = <<>>
    THEN DropTrailingEmpty(Upto(labels, Len(labels) - 1))
    ELSE labels

\* The host the URL was built with, as lower-case labels without the trailing dots.
BuiltHost(p) == DropTrailingEmpty([i \in 1..Len(p.labels) |-> Lower(p.labels[i])])

\* The labels of host end with the labels of an allow-list entry: the host is the
\* entry or a subdomain of it.
IsOrIsUnder(host, entry) ==
    LET e == Split(entry, ".") IN
    Len(host) >= Len(e) /\ SubSeq(host, Len(host) - Len(e) + 1, Len(host)) = e

\* Whether the URL built from p has a host at all that urlparse can give.
HasHost(p) == p.prefix \in NetPrefixes /\ ~p.bracket

\* C2: _is_allowed_domain returns true exactly when the URL has a parseable host that,
\* lower-cased and without trailing dots, is an allow-list entry or a subdomain of one;
\* lookalikes (notbilibili.com, bilibili.com.evil) and URLs without a host are rejected.
C2_AllowedIffEntryOrSubdomain ==
    vpc = "done" =>
        (allowed <=> (HasHost(urlParts) /\
                      \E d \in 1..Len(_ALLOWED_DOMAINS) :
                          IsOrIsUnder(BuiltHost(urlParts), _ALLOWED_DOMAINS[d])))

\* A lookalike host whose name only ends with an entry's characters was rejected.
C2_Witness ==
    /\ vpc = "done"
    /\ urlParts.prefix = <<"h","t","t","p","s",":","/","/">>
    /\ urlParts.labels = << <<"n","o","t","b","i","l","i","b","i","l","i">>, <<"c","o","m">> >>
    /\ ~allowed

(***************************************************************************)
(* The extractor under test.  A raw message is built from a card (a dict   *)
(* with a meta mapping) and a form: the dict itself, a OneBot segment or a *)
(* list of segments carrying the card as JSON text, the JSON text, a CQ    *)
(* code with the escaped JSON text, or a cut or malformed variant of these.*)
(***************************************************************************)

RECURSIVE JsonDumps(_), DumpItems(_, _), DumpPairs(_, _)
\* json.dumps(v, separators=(",", ":")) for strings without quotes or backslashes.
JsonDumps(v) ==
    CASE v.t = "none" -> <<"n","u","l","l">>
      [] v.t = "bool" -> IF v.b THEN <<"t","r","u","e">> ELSE <<"f","a","l","s","e">>
      [] v.t = "int" -> DigitsOf(v.n)
      [] v.t = "str" -> <<"\"">> \o v.s \o <<"\"">>
      [] v.t = "list" -> <<"[">> \o DumpItems(v.items, 1) \o <<"]">>
      [] OTHER -> <<"{">> \o DumpPairs(v.items, 1) \o <<"}">>
DumpItems(items, i) ==
    IF i > Len(items) THEN <<>>
    ELSE JsonDumps(items[i]) \o (IF i < Len(items) THEN <<",">> ELSE <<>>)
            \o DumpItems(items, i + 1)
DumpPairs(pairs, i) ==
    IF i > Len(pairs) THEN <<>>
    ELSE <<"\"">> \o pairs[i][1] \o <<"\"", ":">> \o JsonDumps(pairs[i][2])
            \o (IF i < Len(pairs) THEN <<",">> ELSE <<>>) \o DumpPairs(pairs, i + 1)

\* The CQ escaping a transport applies to a payload: & first, then , [ ].
CqEscape(text) ==
    Replace(Replace(Replace(Replace(text, <<"&">>, <<"&","a","m","p",";">>), <<",">>, <<"&","#","4","4",";">>),
                    <<"[">>, <<"&","#","9","1",";">>), <<"]">>, <<"&","#","9","3",";">>)

\* The most entries the meta mapping of a card under test has.
MaxMeta == 2

GoodUrl == <<"h","t","t","p","s",":","/","/","b","2","3",".","t","v","/","a">>
GoodUrl2 == <<"/","/","w","w","w",".","b","i","l","i","b","i","l","i",".","c","o","m","/","v">>
GoodUrl3 == <<"h","t","t","p","s",":","/","/","b","i","l","i","2","2","3","3",".","c","n","/","x">>
BadUrl == <<"h","t","t","p","s",":","/","/","x","b","2","3",".","t","v","/","a">>
Absent == [t |-> "absent"]

\* One value of meta: an object with qqdocurl and url (either may be missing), or
\* something that is no object.
MetaValues ==
    { [qq |-> q, u |-> u] :
        q \in {Absent, EmptyStr, PyStr(GoodUrl), PyStr(BadUrl), PyInt(5)},
        u \in {Absent, PyStr(GoodUrl2), PyStr(BadUrl)} }
    \cup { [qq |-> PyStr(<<"t","e","x","t">>), u |-> [t |-> "nodict"]] }

MetaKeys == << <<"d","e","t","a","i","l","_","1">>, <<"n","e","w","s">>, <<"m","u","s","i","c">> >> \o [i \in 1..MaxMeta |-> <<"k">> \o DigitsOf(i)]

MetaValueOf(m) ==
    IF m.u.t = "nodict" THEN m.qq
    ELSE PyDict((IF m.qq.t = "absent" THEN <<>> ELSE << << <<"q","q","d","o","c","u","r","l">>, m.qq >> >>)
                \o (IF m.u.t = "absent" THEN <<>> ELSE << << <<"u","r","l">>, m.u >> >>))

\* The card dict with the given meta values, in order.
CardOf(ms) ==
    PyDict(<< << <<"a","p","p">>, PyStr(<<"c","o","m",".","t","e","n","c","e","n","t",".","m","i","n","i","a","p","p">>) >>,
              << <<"m","e","t","a">>, PyDict([i \in 1..Len(ms) |-> <<MetaKeys[i], MetaValueOf(ms[i])>>]) >> >>)

Metas == UNION { [1..n -> MetaValues] : n \in 0..MaxMeta }

\* {"type": type, "data": {"data": text}}
Segment(type, text) ==
    PyDict(<< << <<"t","y","p","e">>, PyStr(type) >>,
              << <<"d","a","t","a">>, PyDict(<< << <<"d","a","t","a">>, PyStr(text) >> >>) >> >>)

\* JSON text nested one array deeper than the recursion limit allows.
DeepJson == <<"{","\"","a","\"",":">> \o [i \in 1..RecursionLimit |-> "["]

Forms ==
    { "dict", "segment", "list", "list_str_data", "json", "json_spaces", "cq", "cq_text",
      "dict_segment", "list_two" }

\* The fixed card the cut and malformed inputs are made from.
OneCard == CardOf(<< [qq |-> PyStr(GoodUrl), u |-> Absent] >>)

\* The card that comes second where an input holds two.
OtherCard == CardOf(<< [qq |-> PyStr(GoodUrl3), u |-> Absent] >>)
OneCq == CqPrefix \o CqEscape(JsonDumps(OneCard)) \o <<"]">>

RawParts ==
    [form : Forms, meta : Metas, cut : {0}]
    \cup [form : {"cut_json"}, meta : {<<>>}, cut : 0..Len(JsonDumps(OneCard))]
    \cup [form : {"cut_cq"}, meta : {<<>>}, cut : 0..Len(OneCq)]
    \cup [form : {"none", "int", "empty_list", "not_a_card", "segment_no_data",
                  "segment_int_data", "array_json", "deep_json", "deep_segment", "deep_cq"},
          meta : {<<>>}, cut : {0}]

RawOf(p) ==
    LET card == CardOf(p.meta)
        text == JsonDumps(card)
    IN  CASE p.form = "dict" -> card
          [] p.form = "segment" -> Segment(<<"j","s","o","n">>, text)
          [] p.form = "list" ->
                PyList(<< PyStr(<<"h","i">>), Segment(<<"t","e","x","t">>, text), Segment(<<"j","s","o","n">>, <<"{">>),
                          Segment(<<"j","s","o","n">>, text) >>)
          [] p.form = "list_str_data" ->
                PyList(<< PyDict(<< << <<"t","y","p","e">>, PyStr(<<"j","s","o","n">>) >>, << <<"d","a","t","a">>, PyStr(text) >> >>) >>)
          [] p.form = "dict_segment" ->
                PyDict(card.items \o Segment(<<"j","s","o","n">>, JsonDumps(OtherCard)).items)
          [] p.form = "list_two" ->
                PyList(<< PyInt(7), Segment(<<"j","s","o","n">>, text), Segment(<<"j","s","o","n">>, JsonDumps(OtherCard)) >>)
          [] p.form = "json" -> PyStr(text)
          [] p.form = "json_spaces" -> PyStr(<<" "," ">> \o text \o <<" ">>)
          [] p.form = "cq" -> PyStr(CqPrefix \o CqEscape(text) \o <<"]">>)
          [] p.form = "cq_text" -> PyStr(<<"s","e","e"," ","[","x","]"," ">> \o CqPrefix \o CqEscape(text) \o <<"]"," ","o","k">>)
          [] p.form = "cut_json" -> PyStr(Upto(JsonDumps(OneCard), p.cut))
          [] p.form = "cut_cq" -> PyStr(Upto(OneCq, p.cut))
          [] p.form = "none" -> PyNone
          [] p.form = "int" -> PyInt(7)
          [] p.form = "empty_list" -> PyList(<<>>)
          [] p.form = "not_a_card" -> PyDict(<< << <<"m","e","t","a">>, PyStr(GoodUrl) >> >>)
          [] p.form = "segment_no_data" -> PyDict(<< << <<"t","y","p","e">>, PyStr(<<"j","s","o","n">>) >> >>)
          [] p.form = "segment_int_data" ->
                PyDict(<< << <<"t","y","p","e">>, PyStr(<<"j","s","o","n">>) >>,
                          << <<"d","a","t","a">>, PyDict(<< << <<"d","a","t","a">>, PyInt(1) >> >>) >> >>)
          [] p.form = "array_json" -> PyStr(<<"[">> \o text \o <<"]">>)
          [] p.form = "deep_json" -> PyStr(DeepJson)
          [] p.form = "deep_segment" -> PyList(<< Segment(<<"j","s","o","n">>, DeepJson) >>)
          [] OTHER -> PyStr(CqPrefix \o CqEscape(DeepJson) \o <<"]">>)

ExtractInit ==
    /\ xpc = "ready"
    /\ rawParts \in RawParts
    /\ raw_message = RawOf(rawParts)
    /\ extracted = Returns(EmptyStr)
    /\ DomainIdle /\ CqIdle /\ FormatIdle /\ CacheIdle /\ SignIdle /\ PluginIdle

\* A call _extract_from_raw_message(raw_message).
Extract ==
    /\ xpc = "ready"
    /\ xpc' = "done"
    /\ extracted' = _extract_from_raw_message(raw_message)
    /\ UNCHANGED <<rawParts, raw_message>>
    /\ UNCHANGED <<domainVars, cqVars, formatVars, cacheVars, signVars, pluginVars>>

ExtractNext == Extract

SpecExtract == ExtractInit /\ [][ExtractNext]_vars

\* C1: for every raw message the extractor returns without raising, and returns the
\* empty string or a URL that _is_allowed_domain accepts.
C1_TotalAndValidated ==
    xpc = "done" =>
        /\ ~extracted.raised
        /\ extracted.v = EmptyStr \/ (IsStr(extracted.v) /\ _is_allowed_domain(extracted.v.s))

\* Apart from raising, the extractor returns only the empty string or accepted URLs.
ExtractedIsValidated ==
    (xpc = "done" /\ ~extracted.raised) =>
        extracted.v = EmptyStr \/ (IsStr(extracted.v) /\ _is_allowed_domain(extracted.v.s))

\* The candidate URL of a value of meta: its qqdocurl, or else its url.
Candidate(val) ==
    IF Truthy(DictGet(val, <<"q","q","d","o","c","u","r","l">>, EmptyStr)) THEN DictGet(val, <<"q","q","d","o","c","u","r","l">>, EmptyStr)
    ELSE DictGet(val, <<"u","r","l">>, EmptyStr)

\* The value at position n of the mapping meta is an object whose candidate validates.
Validates(meta, n) ==
    /\ IsDict(meta.items[n][2])
    /\ IsStr(Candidate(meta.items[n][2]))
    /\ Candidate(meta.items[n][2]).s # <<>>
    /\ _is_allowed_domain(Candidate(meta.items[n][2]).s)

\* The candidate of the first value of meta that validates, the empty string for none.
FirstOfMeta(meta) ==
    IF \E n \in 1..Len(meta.items) : Validates(meta, n)
    THEN Candidate(meta.items[CHOOSE n \in 1..Len(meta.items) :
                                 Validates(meta, n) /\ \A m \in 1..(n - 1) : ~Validates(meta, m)][2])
    ELSE EmptyStr

\* The first validated candidate of a card dict.
FirstOfCard(card) ==
    IF HasKey(card, <<"m","e","t","a">>) /\ IsDict(DictGet(card, <<"m","e","t","a">>, PyNone))
    THEN FirstOfMeta(DictGet(card, <<"m","e","t","a">>, PyNone))
    ELSE EmptyStr

\* The first validated candidate of the card that text is the JSON of.
FirstOfText(text) ==
    IF JsonLoads(text).st = "ok" /\ IsDict(JsonLoads(text).v) THEN FirstOfCard(JsonLoads(text).v)
    ELSE EmptyStr

\* What the payload of a json segment yields: data.data if data is an object, and for
\* an element of a list also data itself if it is a str.
PayloadYield(data, in_list) ==
    IF IsDict(data) /\ IsStr(DictGet(data, <<"d","a","t","a">>, EmptyStr))
    THEN FirstOfText(DictGet(data, <<"d","a","t","a">>, EmptyStr).s)
    ELSE IF in_list /\ IsStr(data) THEN FirstOfText(data.s)
    ELSE EmptyStr

\* What an element yields as a segment: nothing unless it is a dict of type json.
SegmentYield(seg, in_list) ==
    IF IsDict(seg) /\ DictGet(seg, <<"t","y","p","e">>, PyNone) = PyStr(<<"j","s","o","n">>)
    THEN PayloadYield(DictGet(seg, <<"d","a","t","a">>, PyDict(<<>>)), in_list)
    ELSE EmptyStr

\* The yield of the lowest-index element of segs that yields a URL.
FirstOfList(segs) ==
    IF \E n \in 1..Len(segs) : Truthy(SegmentYield(segs[n], TRUE))
    THEN SegmentYield(segs[CHOOSE n \in 1..Len(segs) :
                              /\ Truthy(SegmentYield(segs[n], TRUE))
                              /\ \A m \in 1..(n - 1) : ~Truthy(SegmentYield(segs[m], TRUE))], TRUE)
    ELSE EmptyStr

\* C13: first validated hit wins, in order.  For a card dict the result is the candidate
\* (qqdocurl, or else url) of the first value of meta, in mapping order, that is an object
\* whose candidate passes the validator, and only when meta gives none is the dict read as
\* a json segment; for a list the result is what the lowest-index json segment that
\* yields a validated URL yields, other elements being skipped.
C13_FirstHitWins ==
    (xpc = "done" /\ ~extracted.raised) =>
        /\ IsDict(raw_message) =>
              extracted.v = IF Truthy(FirstOfCard(raw_message)) THEN FirstOfCard(raw_message)
                            ELSE SegmentYield(raw_message, FALSE)
        /\ IsList(raw_message) => extracted.v = FirstOfList(raw_message.items)

\* Of two json segments that both yield a validated URL the first one won, and it gave
\* the candidate of the first of its two meta values, which both validate.
C13_Witness ==
    /\ xpc = "done"
    /\ rawParts.form = "list_two"
    /\ rawParts.meta = << [qq |-> Absent, u |-> PyStr(GoodUrl2)], [qq |-> PyStr(GoodUrl), u |-> Absent] >>
    /\ extracted = Returns(PyStr(GoodUrl2))
    /\ FirstOfList(<<raw_message.items[3]>>) = PyStr(GoodUrl3)

(***************************************************************************)
(* The CQ escaping round trip: a payload is escaped the way a transport    *)
(* writes a [CQ:json,data=...] code, and decoded by the extractor's chain. *)
(***************************************************************************)

\* The most pieces a payload under test is put together from.
MaxPieces == 3

PayloadPieces ==
    { <<"&">>, <<"a","m","p",";">>, <<"#","4","4",";">>, <<"#","9","1",";">>, <<"#","9","3",";">>, <<",">>, <<"[">>, <<"]">>, <<"{","\"","a","\"",":","1","}">> }

Payloads == { Concat(ps) : ps \in UNION { [1..n -> PayloadPieces] : n \in 0..MaxPieces } }

CqInit ==
    /\ cpc = "ready"
    /\ payload \in Payloads
    /\ cq_data = <<>>
    /\ DomainIdle /\ ExtractIdle /\ FormatIdle /\ CacheIdle /\ SignIdle /\ PluginIdle

\* The transport escapes the payload.
CqEncode ==
    /\ cpc = "ready"
    /\ cpc' = "encoded"
    /\ cq_data' = CqEscape(payload)
    /\ UNCHANGED payload
    /\ UNCHANGED <<domainVars, extractVars, formatVars, cacheVars, signVars, pluginVars>>

\* The extractor decodes cq_data (main.py, the chain of replace calls).
CqDecode ==
    /\ cpc = "encoded"
    /\ cpc' = "decoded"
    /\ cq_data' = CqUnescape(cq_data)
    /\ UNCHANGED payload
    /\ UNCHANGED <<domainVars, extractVars, formatVars, cacheVars, signVars, pluginVars>>

CqNext == CqEncode \/ CqDecode

SpecCq == CqInit /\ [][CqNext]_vars

\* C6: escaping a payload and decoding it with the extractor's chain gives the payload
\* back, also when the payload holds the literal text &amp; &#44; &#91; or &#93;.
C6_RoundTrip == cpc = "decoded" => cq_data = payload

\* A payload has an escape-like text when a & in it is followed by #44; #91; or #93;.
HasEscapeText(text) ==
    \E i \in 1..Len(text) :
        IsAt(text, i, <<"&","#","4","4",";">>) \/ IsAt(text, i, <<"&","#","9","1",";">>) \/ IsAt(text, i, <<"&","#","9","3",";">>)

\* The round trip holds for the payloads without such a text (&amp; alone is harmless).
RoundTripWithoutEscapeText ==
    (cpc = "decoded" /\ ~HasEscapeText(payload)) => cq_data = payload

(***************************************************************************)
(* The formatter under test, on lists of up to MaxItems elements, each a   *)
(* text, an image URL, a falsy value, a number or a nested list.           *)
(***************************************************************************)

\* The most elements the top-level list under test has.
MaxItems == 3

ImageItems ==
    { PyStr(<<"/","/","i","0",".","h","d","s","l","b",".","c","o","m","/","y",".","P","N","G","?","q","=","1">>), PyStr(<<"x",".","j","p","g">>), PyStr(<<"h","t","t","p",":","/","/","h","/","z",".","g","i","f","#","t">>),
      PyStr(<<"h","t","t","p","b","i","n",".","o","r","g","/","a",".","p","n","g">>) }
TextItems == { PyStr(<<"h","e","l","l","o"," ">>), PyStr(<<"b">>), PyStr(<<".","j","p","g">>), PyInt(5) }
FalsyItems == { EmptyStr, PyNone }
NestedItems ==
    { PyList(<<>>),
      PyList(<< PyStr(<<"c">>), PyList(<< PyStr(<<"x",".","j","p","g">>) >>), EmptyStr >>),
      PyList(<< PyList(<< PyStr(<<"d">>) >>), PyStr(<<"e">>) >>) }

Items == ImageItems \cup TextItems \cup FalsyItems \cup NestedItems

FormatInit ==
    /\ fpc = "ready"
    /\ msg_list \in UNION { [1..n -> Items] : n \in 0..MaxItems }
    /\ chain = <<>>
    /\ DomainIdle /\ ExtractIdle /\ CqIdle /\ CacheIdle /\ SignIdle /\ PluginIdle

\* A call _format_msg(msg_list).
Format ==
    /\ fpc = "ready"
    /\ fpc' = "done"
    /\ chain' = _format_msg(msg_list)
    /\ UNCHANGED msg_list
    /\ UNCHANGED <<domainVars, extractVars, cqVars, cacheVars, signVars, pluginVars>>

FormatNext == Format

SpecFormat == FormatInit /\ [][FormatNext]_vars

RECURSIVE Leaves(_)
\* The items of a nested value, left to right, with the nesting taken away.
Leaves(v) ==
    IF ~IsList(v) THEN <<v>>
    ELSE Concat([n \in 1..Len(v.items) |-> Leaves(v.items[n])])

\* The flattened items of the input that are not falsy.
KeptItems == SelectSeq(Leaves(PyList(msg_list)), Truthy)

\* The length of the run of non-image items that items starts with.
RunLength(items) ==
    IF \E n \in 1..Len(items) : _is_image(items[n])
    THEN (CHOOSE n \in 1..Len(items) :
            _is_image(items[n]) /\ \A m \in 1..(n - 1) : ~_is_image(items[m])) - 1
    ELSE Len(items)

RECURSIVE Runs(_)
\* What the maximal runs of items come to: an image is [k |-> "Image", v |-> the item],
\* a run of other items is [k |-> "Plain", v |-> their string forms joined].
Runs(items) ==
    IF items = <<>> THEN <<>>
    ELSE IF _is_image(Head(items)) THEN <<Image(Head(items).s)>> \o Runs(Tail(items))
    ELSE LET n == RunLength(items) IN
         <<Plain(Concat([m \in 1..n |-> PyStrOf(items[m])]))>> \o Runs(From(items, n + 1))

\* Segment seg is what run stands for: the same text, or an image made from the item.
SegmentOfRun(seg, run) ==
    /\ seg.k = run.k
    /\ IF run.k = "Plain" THEN seg.v = run.v ELSE EndsWith(seg.v, run.v)

\* C5: the chain has, in source order, one Plain per maximal run of consecutive
\* non-image items (their string forms joined) and one Image per image item; so no two
\* Plains are adjacent, no Plain is empty, and text around an image is not merged.
C5_RunsBecomeSegments ==
    fpc = "done" =>
        LET runs == Runs(KeptItems) IN
        /\ Len(chain) = Len(runs)
        /\ \A n \in 1..Len(chain) : SegmentOfRun(chain[n], runs[n])
        /\ \A n \in 1..Len(chain) : chain[n].k = "Plain" => chain[n].v # <<>>
        /\ \A n \in 1..(Len(chain) - 1) : ~(chain[n].k = "Plain" /\ chain[n + 1].k = "Plain")

\* Text, a nested image and more text came out as Plain, Image, Plain, and two texts
\* with a falsy item between them came out as one Plain.
C5_Witness ==
    /\ fpc = "done"
    /\ msg_list = << PyStr(<<"h","e","l","l","o"," ">>), PyList(<< PyStr(<<"c">>), PyList(<< PyStr(<<"x",".","j","p","g">>) >>), EmptyStr >>),
                     PyStr(<<"b">>) >>
    /\ chain = << Plain(<<"h","e","l","l","o"," ","c">>), Image(<<"h","t","t","p","s",":","/","/","x",".","j","p","g">>), Plain(<<"b">>) >>

\* The URL the spec gives an image item: an absolute http(s) URL as it is, a
\* protocol-relative one behind "https:", anything else behind "https://".
NormalizedUrl(i) ==
    IF StartsWith(i, <<"h","t","t","p",":","/","/">>) \/ StartsWith(i, <<"h","t","t","p","s",":","/","/">>) THEN i
    ELSE IF StartsWith(i, <<"/","/">>) THEN <<"h","t","t","p","s",":">> \o i
    ELSE <<"h","t","t","p","s",":","/","/">> \o i

\* The Image segments of the chain, in order.
ImageSegments == SelectSeq(chain, LAMBDA seg : seg.k = "Image")

\* The items of the input that _is_image accepts, in order.
ImagesKept == SelectSeq(KeptItems, _is_image)

\* C12: every item that _format_msg takes for an image comes out as one Image whose URL
\* is the item itself if it is an absolute http:// or https:// URL, "https:" + item if
\* it starts with //, and "https://" + item otherwise; so every Image URL starts with
\* http:// or https://.
C12_ImageUrlNormalized ==
    fpc = "done" =>
        /\ Len(ImageSegments) = Len(ImagesKept)
        /\ \A n \in 1..Len(ImageSegments) :
              /\ ImageSegments[n].v = NormalizedUrl(ImagesKept[n].s)
              /\ StartsWith(ImageSegments[n].v, <<"h","t","t","p",":","/","/">>) \/ StartsWith(ImageSegments[n].v, <<"h","t","t","p","s",":","/","/">>)

(***************************************************************************)
(* The key cache under concurrent calls: every caller calls get_wbi_keys   *)
(* again and again, with or without a session of its own, while the clock  *)
(* runs and the nav endpoint answers, refuses or fails.                    *)
(***************************************************************************)

CacheInit ==
    /\ clock = 0
    /\ _wbi_key_cache = NoCache
    /\ pc = [p \in Callers |-> "idle"]
    /\ now = [p \in Callers |-> 0]
    /\ owns_session = [p \in Callers |-> FALSE]
    /\ session = [p \in Callers |-> NoLocalSession]
    /\ resp = [p \in Callers |-> NoResponse]
    /\ exc = [p \in Callers |-> "none"]
    /\ ret = [p \in Callers |-> NoKeys]
    /\ reqs = [p \in Callers |-> 0]
    /\ writes = [p \in Callers |-> 0]
    /\ cache0 = [p \in Callers |-> NoCache]
    /\ alone = [p \in Callers |-> TRUE]
    /\ sent = [p \in Callers |-> 0]
    /\ origin = 0
    /\ DomainIdle /\ ExtractIdle /\ CqIdle /\ FormatIdle /\ SignIdle /\ PluginIdle

pureVars == <<domainVars, extractVars, cqVars, formatVars>>

CacheNext ==
    \/ \E p \in Callers, supplied \in BOOLEAN : Start(p, supplied) /\ UNCHANGED <<pureVars, signVars, pluginVars>>
    \/ \E p \in Callers, r \in NavResponses : Respond(p, r) /\ UNCHANGED <<pureVars, signVars, pluginVars>>
    \/ \E p \in Callers, e \in AbortKinds : Abort(p, e) /\ UNCHANGED <<pureVars, signVars, pluginVars>>
    \/ \E p \in Callers : ReadJson(p) /\ UNCHANGED <<pureVars, signVars, pluginVars>>
    \/ \E p \in Callers : Closed(p) /\ UNCHANGED <<pureVars, signVars, pluginVars>>
    \/ \E p \in Callers : CancelClose(p) /\ UNCHANGED <<pureVars, signVars, pluginVars>>
    \/ Tick /\ UNCHANGED <<pureVars, signVars, pluginVars>>

SpecCache == CacheInit /\ [][CacheNext]_vars

Done == {"returned", "raised"}

\* p has finished a call that ran with no other call in flight and that found an entry
\* in the cache, stored by the fetch of a call that read the clock at cache0[p][3].
RanAfterFetch(p) == pc[p] \in Done /\ alone[p] /\ cache0[p] # NoCache

\* The age, at the call of p, of the entry the call found.
AgeAtCall(p) == now[p] - cache0[p][3]

\* The call of p returned the pair of the entry it found, without a request or a store.
ServedFromCache(p) ==
    /\ pc[p] = "returned"
    /\ ret[p] = <<cache0[p][1], cache0[p][2]>>
    /\ reqs[p] = 0
    /\ writes[p] = 0

\* The call of p stored one entry, of the pair it returned and the time it read.
Replaced(p) ==
    /\ pc[p] = "returned"
    /\ writes[p] = 1
    /\ NewEntry(ret[p][1], ret[p][2], now[p]) # cache0[p]

\* C3, as stated: of get_wbi_keys calls that run one after another, a call that finds an
\* entry younger than 30 minutes returns the cached pair and issues no HTTP request, and
\* a call that finds an entry of 30 minutes or more issues exactly one HTTP request and
\* replaces the cache entry.
C3_StaleCallReplaces ==
    \A p \in Callers :
        RanAfterFetch(p) =>
            IF AgeAtCall(p) < _WBI_KEY_TTL THEN ServedFromCache(p)
            ELSE reqs[p] = 1 /\ Replaced(p)

\* C3, amended: of get_wbi_keys calls that run one after another, a call that finds an
\* entry younger than 30 minutes returns the cached pair and issues no HTTP request, and
\* a call that finds an entry of 30 minutes or more issues exactly one HTTP request; it
\* replaces the cache entry if that request succeeds, and leaves the entry alone and
\* raises if it fails.
C3_StaleCallFetchesOnce ==
    \A p \in Callers :
        RanAfterFetch(p) =>
            IF AgeAtCall(p) < _WBI_KEY_TTL THEN ServedFromCache(p)
            ELSE /\ reqs[p] = 1
                 /\ pc[p] = "returned" => Replaced(p)
                 /\ pc[p] = "raised" => writes[p] = 0

\* A call that ran alone found an entry of 30 minutes or more, fetched once, and the
\* cache now holds the entry it stored.
C3_Witness ==
    \E p \in Callers :
        /\ RanAfterFetch(p)
        /\ AgeAtCall(p) >= _WBI_KEY_TTL
        /\ reqs[p] = 1
        /\ Replaced(p)
        /\ _wbi_key_cache = <<ret[p][1], ret[p][2], now[p]>>

\* The fetch of p has failed: its call is raising, or has raised.
Failed(p) == exc[p] # "none"

\* This step is a store to the cache by p: p had a response of status 200 whose body has
\* both URLs, and the whole entry is the keys of that body and the time p read.
StoreBy(p) ==
    /\ pc[p] \in {"json", "closing"}
    /\ pc'[p] = "returned"
    /\ exc[p] = "none"
    /\ resp[p].status = 200
    /\ KeysFrom(resp[p].body).ok
    /\ _wbi_key_cache' = << KeysFrom(resp[p].body).img_key, KeysFrom(resp[p].body).sub_key,
                            now[p] >>
    /\ writes'[p] = writes[p] + 1

\* This step ends the call of p with a return after a request.
ReturnsFetched(p) == pc[p] \in InFlight /\ pc'[p] = "returned"

\* C4: a get_wbi_keys call whose fetch fails (status other than 200, transport error or
\* timeout, cancellation, a body without the two URLs) raises to its caller, has issued
\* at most one HTTP request and has not stored to the cache, which a call that ran
\* alone leaves as it found it; a call returns after a
\* request only with a 200 response that has both URLs; and every change of the cache
\* is the store of a whole (img_key, sub_key, fetched_at) tuple by such a call.
C4_FailureLeavesCache ==
    /\ [](\A p \in Callers :
            /\ reqs[p] <= 1
            /\ Failed(p) => pc[p] \in {"closing", "raised"} /\ writes[p] = 0 /\ ret[p] = NoKeys
            /\ pc[p] = "raised" => Failed(p))
    /\ [][ /\ \A p \in Callers : ReturnsFetched(p) => StoreBy(p)
           /\ \A p \in Callers :
                 pc[p] \in InFlight /\ pc'[p] = "raised" =>
                     /\ _wbi_key_cache' = _wbi_key_cache
                     /\ alone[p] => _wbi_key_cache' = cache0[p]
           /\ _wbi_key_cache' # _wbi_key_cache => \E p \in Callers : StoreBy(p) ]_vars

\* A call found an entry, fetched once, got a body without a usable sub_url and raised,
\* and the cache is still the entry it found.
C4_Witness ==
    \E p \in Callers :
        /\ pc[p] = "raised"
        /\ exc[p] = "KeyError"
        /\ reqs[p] = 1
        /\ cache0[p] # NoCache
        /\ _wbi_key_cache = cache0[p]

\* C9: get_wbi_keys has no single-flight guard.  Every call that read the cache as
\* empty or stale issues a request of its own, whatever other calls are in flight; a
\* call that succeeds returns the pair of its own response; and after every store the
\* cache is the complete tuple of the call that stored last, keys and fetched_at, never
\* a mix of two calls' fields.
C9_LastWriterWins ==
    /\ [](\A p \in Callers :
            pc[p] \in InFlight \cup Done /\ ~(cache0[p] # NoCache /\ AgeAtCall(p) < _WBI_KEY_TTL)
                => reqs[p] = 1)
    /\ [][ \A p \in Callers :
             ReturnsFetched(p) =>
                 /\ ret'[p] = << KeysFrom(resp[p].body).img_key, KeysFrom(resp[p].body).sub_key >>
                 /\ _wbi_key_cache' = <<ret'[p][1], ret'[p][2], now[p]>> ]_vars

\* Two calls that overlapped both read the same cache before either stored, both
\* fetched and returned the different pairs of their own responses, and the cache is the
\* whole tuple of the one that stored last, which is the one that began first.
C9_Witness ==
    /\ pc["c1"] = "returned" /\ pc["c2"] = "returned"
    /\ ~alone["c1"] /\ ~alone["c2"]
    /\ cache0["c1"] = cache0["c2"]
    /\ writes["c1"] = 1 /\ writes["c2"] = 1
    /\ ret["c1"] = <<ImgKeyA, SubKeyA>> /\ ret["c2"] = <<ImgKeyB, SubKeyB>>
    /\ now["c2"] < now["c1"]
    /\ _wbi_key_cache = <<ImgKeyB, SubKeyB, now["c2"]>>

\* The cache holds an entry younger than 30 minutes.
Fresh == _wbi_key_cache # NoCache /\ clock - _wbi_key_cache[3] < _WBI_KEY_TTL

\* C10: in every execution, interleaved concurrent calls included, a step takes the cache
\* from Fresh to not Fresh only by the passage of time, leaving the entry as it is (so
\* no store replaces a Fresh entry by one that is Stale when stored), and a step takes
\* the cache from Stale or Empty to Fresh only by the store of a call whose fetch
\* succeeded.
C10_FreshStaleTransitions ==
    [][ /\ Fresh /\ ~Fresh' => clock' > clock /\ _wbi_key_cache' = _wbi_key_cache
        /\ ~Fresh /\ Fresh' => \E p \in Callers : StoreBy(p) ]_vars

\* The cache holds an entry that has gone stale, and a call that overlapped another has
\* its 200 response with both URLs and is about to store.
C10_Witness ==
    /\ _wbi_key_cache # NoCache
    /\ ~Fresh
    /\ \E p \in Callers :
          /\ pc[p] = "closing"
          /\ exc[p] = "none"
          /\ KeysFrom(resp[p].body).ok
          /\ ~alone[p]

\* This step is a call of p that reads the clock and returns the pair in the cache.
ReturnsCached(p) ==
    /\ pc[p] \notin InFlight
    /\ pc'[p] = "returned"
    /\ reqs'[p] = 0
    /\ now'[p] = clock
    /\ cache0'[p] = _wbi_key_cache
    /\ _wbi_key_cache' = _wbi_key_cache
    /\ clock' = clock

\* C15: whenever get_wbi_keys returns a pair from the cache at time t, the pair is that
\* of the cached entry, and the request that fetched the entry was issued less than 30
\* minutes before t and not after t; the fetched_at of every entry is the clock reading
\* at the start of the call that fetched it, which is not later than the time its request
\* was issued, so no entry looks younger than it is; under any interleaving of calls.
C15_CachedPairIsYoung ==
    /\ [](_wbi_key_cache # NoCache => _wbi_key_cache[3] <= origin /\ origin <= clock)
    /\ [][ /\ \A p \in Callers :
                 ReturnsCached(p) =>
                     /\ ret'[p] = <<_wbi_key_cache[1], _wbi_key_cache[2]>>
                     /\ clock - origin >= 0
                     /\ clock - origin < _WBI_KEY_TTL
           /\ \A p \in Callers :
                 ReturnsFetched(p) => _wbi_key_cache'[3] = now[p] /\ now[p] <= sent[p] ]_vars

\* A call was served from the cache an entry that an overlapping call had fetched with
\* a request issued two ticks earlier, one tick short of the time to live.
C15_Witness ==
    \E p \in Callers :
        /\ cache0[p] # NoCache
        /\ ServedFromCache(p)
        /\ cache0[p] = _wbi_key_cache
        /\ now[p] = clock
        /\ clock - origin = _WBI_KEY_TTL - 1
        /\ \E q \in Callers \ {p} : writes[q] = 1 /\ sent[q] = origin /\ ~alone[q]

\* The call of p found the cache empty or stale, and so went on to a session.
Missed(p) == pc[p] \in InFlight \cup Done /\ ~CacheIsFresh(cache0[p], now[p])

\* The call of p found a fresh entry.
Hit(p) == pc[p] \in InFlight \cup Done /\ CacheIsFresh(cache0[p], now[p])

\* The session of a call that made its own: untouched while the request runs, and once
\* the call is over close() has been called on it once and, unless the call was
\* cancelled, has closed it.
OwnSessionClosedOnce(p) ==
    /\ owns_session[p]
    /\ pc[p] \in {"get", "json"} => session[p].open /\ session[p].closes = 0
    /\ pc[p] \in {"closing"} \cup Done => session[p].closes = 1
    /\ pc[p] \in Done => ~session[p].open \/ exc[p] = "CancelledError"

\* The session a call was given: never closed by the call.
SuppliedSessionLeftOpen(p) ==
    /\ ~owns_session[p]
    /\ session[p].open
    /\ session[p].closes = 0

\* C16: a get_wbi_keys call that finds the cache empty or stale and has no session from
\* its caller makes one session and calls close() on it exactly once on every way out
\* (success, a status other than 200, a transport error, cancellation) before it
\* returns or raises; a call that was given a session never closes it; and a call that
\* finds a fresh entry makes no session and issues no request.
C16_SessionOwnership ==
    \A p \in Callers :
        /\ Hit(p) => pc[p] = "returned" /\ session[p] = NoLocalSession /\ reqs[p] = 0
        /\ Missed(p) => reqs[p] = 1
        /\ Missed(p) /\ session[p].made = 1 => OwnSessionClosedOnce(p)
        /\ Missed(p) /\ session[p].made = 0 => SuppliedSessionLeftOpen(p)
        /\ session[p].made <= 1

\* One call made its own session, was refused with a status other than 200 and raised
\* with its session closed by one close(); the other was given a session, fetched and
\* returned, and the session it was given is open.
C16_Witness ==
    /\ pc["c1"] = "raised" /\ exc["c1"] = "RuntimeError"
    /\ session["c1"] = [made |-> 1, open |-> FALSE, closes |-> 1]
    /\ pc["c2"] = "returned" /\ writes["c2"] = 1
    /\ session["c2"] = SuppliedSession

(***************************************************************************)
(* The signer under test: enc_wbi signs a dict, and then signs a second    *)
(* dict made from the first: the same object again, the same items in      *)
(* reverse insertion order, or the same items with one value changed.      *)
(* Both runs read the same clock.                                          *)
(***************************************************************************)

MaxParams == 2

ParamKeys == {<<"k","e","y","w","o","r","d">>, <<"P","a","g","e">>, <<"w","_","r","i","d">>, <<"w","t","s">>}
ParamValues == {PyStr(<<"a"," ","b">>), PyStr(<<"a"," ","b","!">>), PyInt(1), PyStr(<<"1">>), PyStr(<<"x"," ","y","&","=","(","z",")","*">>)}

ParamDicts ==
    UNION { {d \in [1..n -> ParamKeys \X ParamValues] :
                \A i, j \in 1..n : i # j => d[i][1] # d[j][1]} : n \in 0..MaxParams }

SignTimes == {0, 1}

Reversed(items) == [i \in 1..Len(items) |-> items[Len(items) + 1 - i]]

SignInit ==
    /\ spc = "ready"
    /\ qpc = "off"
    /\ given_params \in ParamDicts
    /\ caller_params = given_params
    /\ signed_params = <<>>
    /\ other_params = <<>>
    /\ other_signed = <<>>
    /\ variation = "none"
    /\ query_string = <<>>
    /\ clock \in SignTimes
    /\ CallsIdle
    /\ DomainIdle /\ ExtractIdle /\ CqIdle /\ FormatIdle /\ PluginIdle

\* signed_params = enc_wbi(caller_params, img_key, sub_key)
Sign ==
    /\ spc = "ready"
    /\ LET r == enc_wbi(caller_params, ImgKeyA, SubKeyA, clock) IN
          /\ signed_params' = r.ret
          /\ caller_params' = r.params
    /\ spc' = "signed"
    /\ UNCHANGED <<given_params, other_params, other_signed, variation, qpc, query_string>>
    /\ UNCHANGED <<pureVars, cacheVars, pluginVars>>

\* The second run, on the dict d; same says that d is the object of the first run.
SignOther(d, how, same) ==
    /\ spc = "signed"
    /\ LET r == enc_wbi(d, ImgKeyA, SubKeyA, clock) IN
          /\ other_signed' = r.ret
          /\ caller_params' = IF same THEN r.params ELSE caller_params
    /\ other_params' = d
    /\ variation' = how
    /\ spc' = "compared"
    /\ UNCHANGED <<given_params, signed_params, qpc, query_string>>
    /\ UNCHANGED <<pureVars, cacheVars, pluginVars>>

SignAgain == SignOther(caller_params, "again", TRUE)

SignReordered == Len(given_params) > 1 /\ SignOther(Reversed(given_params), "order", FALSE)

SignVaried(i, v) ==
    /\ i \in 1..Len(given_params)
    /\ v # given_params[i][2]
    /\ SignOther([given_params EXCEPT ![i] = <<given_params[i][1], v>>], "value", FALSE)

\* The second run, on the object of the first run, after the clock has gone on to t.
SignLater(t) ==
    /\ spc = "signed"
    /\ t # clock
    /\ clock' = t
    /\ LET r == enc_wbi(caller_params, ImgKeyA, SubKeyA, t) IN
          /\ other_signed' = r.ret
          /\ caller_params' = r.params
    /\ other_params' = caller_params
    /\ variation' = "later"
    /\ spc' = "compared"
    /\ UNCHANGED <<given_params, signed_params, qpc, query_string>>
    /\ UNCHANGED <<_wbi_key_cache, pc, now, owns_session, session, resp, exc, ret, reqs,
                   writes, cache0, alone, sent, origin>>
    /\ UNCHANGED <<pureVars, pluginVars>>

SignNext ==
    \/ Sign
    \/ SignAgain
    \/ \E t \in SignTimes : SignLater(t)
    \/ SignReordered
    \/ \E i \in 1..MaxParams, v \in ParamValues : SignVaried(i, v)

SpecSign == SignInit /\ [][SignNext]_vars

\* d[k] of the items of a dict that has the key k.
ValueOf(items, k) == items[CHOOSE i \in 1..Len(items) : items[i][1] = k][2]

HasItem(items, k) == \E i \in 1..Len(items) : items[i][1] = k

\* What enc_wbi signs of a value: its str without the characters ! ' ( ) *.
SignedText(v) == SelectSeq(PyStrOf(v), LAMBDA c : c \notin {"!", "'", "(", ")", "*"})

\* The place of the item whose value the second dict changed.
VariedAt == CHOOSE i \in 1..Len(given_params) : other_params[i] # given_params[i]

SameSignature == ValueOf(signed_params, <<"w","_","r","i","d">>) = ValueOf(other_signed, <<"w","_","r","i","d">>)

\* C7, as stated: with img_key, sub_key and the clock reading fixed, two runs of enc_wbi
\* on the same parameter set give the same w_rid, and two parameter sets that differ in
\* the value of exactly one parameter give different w_rid (MD5 taken for injective).
C7_DeterministicAndSensitive ==
    spc = "compared" =>
        /\ variation \in {"again", "order"} => SameSignature
        /\ variation = "value" => ~SameSignature

\* C7, amended: with img_key, sub_key and the clock reading fixed, two runs of enc_wbi
\* on the same parameter set give the same w_rid, and two parameter sets that differ in
\* the value of exactly one parameter give different w_rid exactly when that parameter
\* is not wts and the two values differ as str after the characters ! ' ( ) * are taken
\* out (MD5 taken for injective).
C7_SensitiveToSignedText ==
    spc = "compared" =>
        /\ variation \in {"again", "order"} => SameSignature
        /\ variation = "value" =>
              (~SameSignature <=>
                  /\ given_params[VariedAt][1] # <<"w","t","s">>
                  /\ SignedText(given_params[VariedAt][2]) # SignedText(other_params[VariedAt][2]))

\* Two dicts of two parameters that differ in the value of one were signed at the same
\* clock reading and got different w_rid.
C7_Witness ==
    /\ spc = "compared"
    /\ variation = "value"
    /\ Len(given_params) = 2
    /\ given_params[VariedAt][1] = <<"k","e","y","w","o","r","d">>
    /\ ~SameSignature

\* The caller's dict is the dict the caller built with wts set to the clock reading of
\* the last run on it, and nothing else changed: every other item is in its place with
\* its value, wts is in its old place or at the end, and there is no other new key.
OnlyWtsSet ==
    /\ Len(caller_params) = Len(given_params) + (IF HasItem(given_params, <<"w","t","s">>) THEN 0 ELSE 1)
    /\ \A i \in 1..Len(given_params) :
          /\ caller_params[i][1] = given_params[i][1]
          /\ given_params[i][1] # <<"w","t","s">> => caller_params[i][2] = given_params[i][2]
    /\ HasItem(caller_params, <<"w","t","s">>)
    /\ ValueOf(caller_params, <<"w","t","s">>) = PyInt(clock)
    /\ HasItem(caller_params, <<"w","_","r","i","d">>) <=> HasItem(given_params, <<"w","_","r","i","d">>)

\* What signing a fresh copy of the dict the caller built gives at the present clock.
FreshlySigned == enc_wbi(given_params, ImgKeyA, SubKeyA, clock).ret

\* C17: enc_wbi changes the caller's dict only by setting wts, over any wts it had:
\* every other entry keeps its value as it was, characters that are not signed
\* included, and w_rid is not added to it; the dict it returns is another dict; and
\* signing the caller's dict a second time, at the same or at a later clock reading,
\* returns what signing a fresh copy of the original parameters at that reading returns.
C17_OnlyWtsSet ==
    spc \in {"signed", "compared"} =>
        /\ OnlyWtsSet
        /\ signed_params # caller_params
        /\ spc = "compared" => other_signed # caller_params
        /\ spc = "compared" /\ variation \in {"again", "later"} => other_signed = FreshlySigned

\* A dict with a value that has characters enc_wbi does not sign, and no wts of its own,
\* was signed twice at different clock readings: it still has that value, it has the wts
\* of the second run, and the two runs returned different dicts.
C17_Witness ==
    /\ spc = "compared"
    /\ variation = "later"
    /\ ~HasItem(given_params, <<"w","t","s">>)
    /\ \E i \in 1..Len(given_params) :
          /\ given_params[i][2] = PyStr(<<"x"," ","y","&","=","(","z",")","*">>)
          /\ caller_params[i] = given_params[i]
    /\ ValueOf(signed_params, <<"w","t","s">>) # ValueOf(other_signed, <<"w","t","s">>)
    /\ ValueOf(caller_params, <<"w","t","s">>) = PyInt(clock)
    /\ other_signed # signed_params

(***************************************************************************)
(* get_query under test: one caller, with any dict, on a cache that is     *)
(* empty or holds an entry; get_wbi_keys runs as in the cache's            *)
(* specification, and enc_wbi signs with the pair it returns.  The clock   *)
(* is followed until get_query ends.                                       *)
(***************************************************************************)

\* The values that differ in what get_query has to do with them: a str with characters
\* to take out and characters to quote, and an int.
QueryValues == {PyStr(<<"x"," ","y","&","=","(","z",")","*">>), PyInt(1)}

QueryDicts == {d \in ParamDicts : \A i \in 1..Len(d) : d[i][2] \in QueryValues}

QueryInit ==
    /\ qpc = "ready"
    /\ spc = "off"
    /\ given_params \in QueryDicts
    /\ caller_params = given_params
    /\ signed_params = <<>>
    /\ other_params = <<>>
    /\ other_signed = <<>>
    /\ variation = "none"
    /\ query_string = <<>>
    /\ clock = 0
    /\ _wbi_key_cache \in {NoCache, NewEntry(ImgKeyB, SubKeyB, 0)}
    /\ pc = [p \in Callers |-> IF p = "c1" THEN "idle" ELSE "off"]
    /\ now = [p \in Callers |-> 0]
    /\ owns_session = [p \in Callers |-> FALSE]
    /\ session = [p \in Callers |-> NoLocalSession]
    /\ resp = [p \in Callers |-> NoResponse]
    /\ exc = [p \in Callers |-> "none"]
    /\ ret = [p \in Callers |-> NoKeys]
    /\ reqs = [p \in Callers |-> 0]
    /\ writes = [p \in Callers |-> 0]
    /\ cache0 = [p \in Callers |-> NoCache]
    /\ alone = [p \in Callers |-> TRUE]
    /\ sent = [p \in Callers |-> 0]
    /\ origin = 0
    /\ DomainIdle /\ ExtractIdle /\ CqIdle /\ FormatIdle /\ PluginIdle

\* get_query begins: await get_wbi_keys(session)
QueryCall(supplied) ==
    /\ qpc = "ready"
    /\ Start("c1", supplied)
    /\ qpc' = "keys"
    /\ UNCHANGED <<spc, given_params, caller_params, signed_params, other_params,
                   other_signed, variation, query_string>>
    /\ UNCHANGED <<pureVars, pluginVars>>

\* get_wbi_keys has returned: enc_wbi signs and urlencode gives the query string.
QuerySign ==
    /\ qpc = "keys"
    /\ pc["c1"] = "returned"
    /\ LET r == enc_wbi(caller_params, ret["c1"][1], ret["c1"][2], clock) IN
          /\ signed_params' = r.ret
          /\ caller_params' = r.params
          /\ query_string' = UrlEncode(r.ret)
    /\ qpc' = "done"
    /\ UNCHANGED <<spc, given_params, other_params, other_signed, variation>>
    /\ UNCHANGED <<pureVars, cacheVars, pluginVars>>

\* get_wbi_keys has raised: get_query raises the same to its caller.
QueryFail ==
    /\ qpc = "keys"
    /\ pc["c1"] = "raised"
    /\ qpc' = "failed"
    /\ UNCHANGED <<spc, given_params, caller_params, signed_params, other_params,
                   other_signed, variation, query_string>>
    /\ UNCHANGED <<pureVars, cacheVars, pluginVars>>

QueryNext ==
    \/ \E supplied \in BOOLEAN : QueryCall(supplied)
    \/ \E r \in NavResponses : Respond("c1", r) /\ UNCHANGED <<pureVars, signVars, pluginVars>>
    \/ \E e \in AbortKinds : Abort("c1", e) /\ UNCHANGED <<pureVars, signVars, pluginVars>>
    \/ ReadJson("c1") /\ UNCHANGED <<pureVars, signVars, pluginVars>>
    \/ Closed("c1") /\ UNCHANGED <<pureVars, signVars, pluginVars>>
    \/ CancelClose("c1") /\ UNCHANGED <<pureVars, signVars, pluginVars>>
    \/ qpc = "keys" /\ Tick /\ UNCHANGED <<pureVars, signVars, pluginVars>>
    \/ QuerySign
    \/ QueryFail

SpecQuery == QueryInit /\ [][QueryNext]_vars

\* The places in a quoted str where a character or an escape begins.
QuotedStarts(s) ==
    SelectSeq([i \in 1..Len(s) |-> i],
              LAMBDA i : ~(i > 1 /\ s[i - 1] = "%") /\ ~(i > 2 /\ s[i - 2] = "%"))

\* The str that a query string's key or value stands for: + is a space and %XY the
\* character of code XY.
UnquotePlus(s) ==
    LET starts == QuotedStarts(s) IN
    [k \in 1..Len(starts) |->
        LET i == starts[k] IN
        IF s[i] = "+" THEN " "
        ELSE IF s[i] = "%"
             THEN Chr(16 * (IndexOf(HexUpper, s[i + 1]) - 1) + (IndexOf(HexUpper, s[i + 2]) - 1))
        ELSE s[i]]

\* The keys get_query has to send besides w_rid: the caller's, and wts.
SentKeys == ({given_params[i][1] : i \in 1..Len(given_params)} \cup {<<"w","t","s">>}) \ {<<"w","_","r","i","d">>}

\* The query string is well formed: every parameter other than w_rid, the caller's and
\* wts, once and in ascending order of key, the caller's values without ! ' ( ) * and
\* wts a clock reading of the call; no value with any of ! ' ( ) *; w_rid once and last;
\* and w_rid the digest of the fields before it followed by the mixin key of the pair
\* get_wbi_keys returned.
WellFormedQuery ==
    LET fields == Split(query_string, "&")
        parts == [i \in 1..Len(fields) |-> Split(fields[i], "=")]
        keys == [i \in 1..Len(fields) |-> UnquotePlus(parts[i][1])]
        values == [i \in 1..Len(fields) |-> UnquotePlus(parts[i][2])]
        others == {i \in 1..Len(fields) : keys[i] # <<"w","_","r","i","d">>}
    IN  /\ \A i \in 1..Len(fields) : Len(parts[i]) = 2
        /\ {keys[i] : i \in others} = SentKeys
        /\ \A i, j \in others : i < j => StrLess(keys[i], keys[j])
        /\ \A i \in others :
              IF keys[i] = <<"w","t","s">>
              THEN \E t \in now["c1"]..clock : values[i] = DigitsOf(t)
              ELSE values[i] = SignedText(ValueOf(given_params, keys[i]))
        /\ \A i \in 1..Len(fields) : \A n \in 1..Len(values[i]) :
              values[i][n] \notin {"!", "'", "(", ")", "*"}
        /\ {i \in 1..Len(fields) : keys[i] = <<"w","_","r","i","d">>} = {Len(fields)}
        /\ values[Len(fields)] =
              Md5Hex(Join(SubSeq(fields, 1, Len(fields) - 1), <<"&">>)
                     \o get_mixin_key(ret["c1"][1] \o ret["c1"][2]))

\* C8, as stated: in the query string get_query returns for any parameter set, every
\* parameter other than w_rid (the caller's and wts, the current time) appears in
\* ascending order of key, no value has any of ! ' ( ) *, w_rid appears exactly once and
\* last, and w_rid is the digest of the serialization of the parameters before it
\* followed by the mixin key of img_key + sub_key.
C8_QueryWellFormed == qpc = "done" => WellFormedQuery

\* C8, amended: the same, for any parameter set that has no parameter named w_rid.
C8_QueryWellFormedWithoutWrid ==
    qpc = "done" /\ ~HasItem(given_params, <<"w","_","r","i","d">>) => WellFormedQuery

\* get_query returned the query string of two parameters given in descending order of
\* key, one with a value that has characters to take out, after a fetch of the keys.
C8_Witness ==
    /\ qpc = "done"
    /\ Len(given_params) = 2
    /\ given_params[1][1] = <<"k","e","y","w","o","r","d">> /\ given_params[2][1] = <<"P","a","g","e">>
    /\ given_params[1][2] = PyStr(<<"x"," ","y","&","=","(","z",")","*">>)
    /\ reqs["c1"] = 1
    /\ WellFormedQuery

(***************************************************************************)
(* The plugin's session under test: two handlers, each called once with    *)
(* one of a few text messages, and terminate, in every interleaving.  The  *)
(* framework calls no handler once terminate has returned.                 *)
(***************************************************************************)

\* An event whose message object has the given fields.
Event(group_id, raw, message, message_str) ==
    [has_obj |-> TRUE, group_id |-> group_id, raw_message |-> raw,
     message |-> message, message_str |-> message_str]

\* A private text message.
TextEvent(message_str) == Event(PyNone, PyStr(message_str), <<>>, message_str)

BvText == <<"B","V","1","x","x","4","1","1","c","7","m","D">>
ShortLinkText == <<"h","t","t","p","s",":","/","/","b","2","3",".","t","v","/","a","b","c">>
SearchText == <<"/","s","v","p"," ","c","a","t">>
VideoUrl == <<"h","t","t","p","s",":","/","/","w","w","w",".","b","i","l","i","b","i","l","i",".","c","o","m","/","v","i","d","e","o","/","B","V","1","x","x","4","1","1","c","7","m","D">>

SessionEvents == {TextEvent(BvText), TextEvent(ShortLinkText), TextEvent(SearchText), TextEvent(<<"h","e","l","l","o">>)}

\* What bili_keyword returns: nothing, a text, or a list of texts and image URLs.
KeywordResults ==
    {PyNone, PyStr(<<>>), PyStr(<<"t","i","t","l","e">>), PyList(<<PyStr(<<>>)>>),
     PyList(<<PyStr(<<"t","i","t","l","e">>), PyStr(<<"/","/","i","0",".","h","d","s","l","b",".","c","o","m","/","y",".","p","n","g">>)>>)}

\* What search_bili_by_title returns.
SearchResults == {PyNone, PyStr(VideoUrl)}

\* The plugin as __init__ leaves it, with nothing called yet.
PluginLoaded ==
    /\ _session = NoSession
    /\ sessions = <<>>
    /\ handler = [h \in Handlers |-> "none"]
    /\ event = [h \in Handlers |-> <<>>]
    /\ htext = [h \in Handlers |-> <<>>]
    /\ hsession = [h \in Handlers |-> NoSession]
    /\ hmsg = [h \in Handlers |-> Unset]
    /\ hlog = [h \in Handlers |-> <<>>]

SessionInit ==
    /\ enable_auto_parse = TRUE
    /\ enable_search = TRUE
    /\ group_whitelist_mode = FALSE
    /\ group_list = <<>>
    /\ tpc = "idle"
    /\ hpc = [h \in Handlers |-> "idle"]
    /\ PluginLoaded
    /\ DomainIdle /\ ExtractIdle /\ CqIdle /\ FormatIdle /\ CacheIdle /\ SignIdle

restVars == <<pureVars, cacheVars, signVars>>

SessionNext ==
    \/ \E h \in Handlers, ev \in SessionEvents : OnMessage(h, ev) /\ UNCHANGED restVars
    \/ \E h \in Handlers, ev \in SessionEvents : SearchVideo(h, ev) /\ UNCHANGED restVars
    \/ \E h \in Handlers : B23Returns(h, VideoUrl) /\ UNCHANGED restVars
    \/ \E h \in Handlers, r \in SearchResults : SearchReturns(h, r) /\ UNCHANGED restVars
    \/ \E h \in Handlers, r \in KeywordResults : KeywordReturns(h, r) /\ UNCHANGED restVars
    \/ \E h \in Handlers : ResolverRaises(h) /\ UNCHANGED restVars
    \/ TerminateClose /\ UNCHANGED restVars
    \/ TerminateReturn /\ UNCHANGED restVars

SpecSession == SessionInit /\ [][SessionNext]_vars

\* The handlers that have called _get_session.
Holders == {h \in Handlers : hsession[h] # NoSession}

\* A session is made only by a handler that needs one, and while the session the
\* plugin holds is open _get_session returns it: of two sessions handlers were given,
\* the earlier was closed before the later was made.  No session is closed twice.
SessionsMadeOnNeed ==
    /\ \A i \in 1..Len(sessions) : \E h \in Holders : hsession[h] = i
    /\ \A a, b \in Holders : hsession[a] < hsession[b] => sessions[hsession[a]].closed
    /\ \A i \in 1..Len(sessions) : sessions[i].closes <= 1

\* C11: in every interleaving of the handlers and terminate, a session is created only
\* on first need, _get_session returns the held session while it is open, and every
\* session the plugin created is closed exactly once on shutdown: once terminate has
\* returned none is still open.
C11_SessionsClosedOnShutdown ==
    /\ SessionsMadeOnNeed
    /\ tpc = "done" =>
          \A i \in 1..Len(sessions) : sessions[i].closed /\ sessions[i].closes = 1

(***************************************************************************)
(* One handler under test: the plugin is configured in every way, and the  *)
(* framework calls on_message or search_video once, with an event of any   *)
(* of several shapes, from any group.                                      *)
(***************************************************************************)

\* config["group_list"] as the user wrote it.
ConfiguredLists == { <<>>, <<PyStr(<<"g","1">>)>>, <<PyInt(1), PyStr(<<"g","2">>)>> }

GroupIds == { PyNone, EmptyStr, PyStr(<<"g","1">>), PyStr(<<"g","3">>), PyStr(<<"1">>) }

\* A message component with the given raw and data attributes.
Component(raw, data) == [raw |-> raw, data |-> data]

\* What a message can hold: the raw message, the components and the text.
Contents ==
    { [raw |-> PyStr(BvText), message |-> <<>>, str |-> <<" ">> \o BvText],
      [raw |-> PyStr(ShortLinkText), message |-> <<>>, str |-> ShortLinkText],
      [raw |-> PyStr(<<"h","e","l","l","o">>), message |-> <<>>, str |-> <<"h","e","l","l","o">>],
      [raw |-> PyStr(<<"c","v">>), message |-> <<Component(PyNone, PyNone)>>, str |-> <<"m","c","v","1","2"," ","B","V","1","x","x","4","1","1","c","7","m">>],
      [raw |-> OneCard, message |-> <<>>, str |-> <<"[","c","a","r","d","]">>],
      [raw |-> PyNone, message |-> <<Component(PyNone, PyNone), Component(PyNone, OneCard)>>, str |-> <<>>],
      [raw |-> PyNone, message |-> <<>>, str |-> JsonDumps(OtherCard)],
      [raw |-> PyStr(DeepJson), message |-> <<>>, str |-> <<"h","e","l","l","o">>],
      [raw |-> PyStr(SearchText), message |-> <<>>, str |-> SearchText],
      [raw |-> PyStr(CommandWord), message |-> <<>>, str |-> CommandWord \o <<" ">>] }

\* The events of the framework: with a message object, or with the text alone.
Events ==
    { Event(g, c.raw, c.message, c.str) : g \in GroupIds, c \in Contents }
    \cup { [has_obj |-> FALSE, group_id |-> PyNone, raw_message |-> PyNone, message |-> <<>>,
            message_str |-> BvText] }

HandlerInit ==
    /\ enable_auto_parse \in BOOLEAN
    /\ enable_search \in BOOLEAN
    /\ group_whitelist_mode \in BOOLEAN
    /\ group_list \in { GroupListOf(l) : l \in ConfiguredLists }
    /\ tpc = "off"
    /\ hpc = [h \in Handlers |-> IF h = "h1" THEN "idle" ELSE "off"]
    /\ PluginLoaded
    /\ DomainIdle /\ ExtractIdle /\ CqIdle /\ FormatIdle /\ CacheIdle /\ SignIdle

HandlerNext ==
    \/ \E ev \in Events : OnMessage("h1", ev) /\ UNCHANGED restVars
    \/ \E ev \in Events : SearchVideo("h1", ev) /\ UNCHANGED restVars
    \/ B23Returns("h1", VideoUrl) /\ UNCHANGED restVars
    \/ \E r \in SearchResults : SearchReturns("h1", r) /\ UNCHANGED restVars
    \/ \E r \in KeywordResults : KeywordReturns("h1", r) /\ UNCHANGED restVars
    \/ ResolverRaises("h1") /\ UNCHANGED restVars

SpecHandler == HandlerInit /\ [][HandlerNext]_vars

\* Handler h has ended: it returned, or it raised to the framework.
Ended(h) == hpc[h] \in {"done", "raised"}

\* What handler h has done includes the step what.
Did(h, what) == \E n \in 1..Len(hlog[h]) : hlog[h][n] = what

\* The group of handler h's event is one the configuration allows: there is no group id,
\* or the list is empty, or the id is listed in whitelist mode, or unlisted otherwise.
GroupAllowed(h) ==
    \/ ~event[h].has_obj
    \/ event[h].group_id \in {PyNone, EmptyStr}
    \/ group_list = <<>>
    \/ group_whitelist_mode = (\E n \in 1..Len(group_list) : group_list[n] = event[h].group_id)

\* The message of handler h holds neither a card URL that was extracted nor a match of
\* BILI_PATTERN.
NothingToResolve(h) ==
    /\ ~(~JsonUrl(event[h]).raised /\ Truthy(JsonUrl(event[h]).v))
    /\ ~BiliPatternSearch(Strip(event[h].message_str))

\* Handler h yielded nothing, did not stop the event and raised nothing.
Quiet(h) == ~Did(h, "reply") /\ ~Did(h, "stop") /\ hpc[h] # "raised"

\* Every reply of handler h was yielded after it had stopped the event.
StopsBeforeReplies(h) ==
    \A n \in 1..Len(hlog[h]) :
        hlog[h][n] = "reply" => \E m \in 1..(n - 1) : hlog[h][m] = "stop"

\* on_message stops the event only for a result that is not empty, and before it replies.
StopsOnlyForResult(h) ==
    /\ Did(h, "stop") => (hmsg[h] # Unset /\ Truthy(hmsg[h]))
    /\ StopsBeforeReplies(h)

\* The cases in which on_message is to stay quiet, that of a message with nothing to
\* resolve left out.
QuietCaseButNothing(h) ==
    \/ ~enable_auto_parse
    \/ ~GroupAllowed(h)
    \/ Did(h, "except")
    \/ hmsg[h] # Unset /\ ~Truthy(hmsg[h])

\* C14: on_message stops the event only after resolution gave a non-empty result.  When
\* auto-parse is disabled, the group is not allowed, the message holds neither an
\* extracted card URL nor a match of the pattern, the resolver raises or the resolver
\* returns an empty result, the handler yields no reply, does not stop the event and
\* raises nothing to the framework; and the event is stopped before any reply.
C14_StopsOnlyAfterResult ==
    \A h \in Handlers :
        (handler[h] = "on_message" /\ Ended(h)) =>
            /\ (QuietCaseButNothing(h) \/ NothingToResolve(h)) => Quiet(h)
            /\ StopsOnlyForResult(h)

\* What holds of on_message: all of C14 but for the messages with nothing to resolve,
\* where the handler stays quiet only if it returns.
OnMessageQuietUnlessRaised ==
    \A h \in Handlers :
        (handler[h] = "on_message" /\ Ended(h)) =>
            /\ QuietCaseButNothing(h) => Quiet(h)
            /\ (NothingToResolve(h) /\ hpc[h] = "done") => Quiet(h)
            /\ StopsOnlyForResult(h)

\* The handler that runs as h is switched on in the configuration.
Enabled(h) == IF handler[h] = "on_message" THEN enable_auto_parse ELSE enable_search

\* A handler that gets past the group test has something to show for it: search_video
\* always, on_message unless the message has nothing to resolve.
ShowsIfPastGate(h) ==
    \/ handler[h] = "search_video"
    \/ JsonUrl(event[h]).raised
    \/ ~NothingToResolve(h)

\* Handler h went on after the group test: it did something, raised or awaits a resolver.
Proceeded(h) == hlog[h] # <<>> \/ hpc[h] \in {"raised", "b23", "search", "keyword"}

\* Handler h returned at once: no resolver called (so no HTTP request), no session taken,
\* no reply, the event not stopped.
ReturnedAtOnce(h) ==
    /\ hpc[h] = "done"
    /\ hlog[h] = <<>>
    /\ hsession[h] = NoSession
    /\ sessions = <<>>

\* C18: a message handler (on_message, search_video) that is switched on goes on for a
\* group id exactly when the group is allowed: a missing or empty group id and an empty
\* group_list always allow, whitelist mode with a list allows exactly the listed ids,
\* blacklist mode exactly the ids not listed.  For a group that is not allowed the
\* handler calls no resolver, so issues no HTTP request, yields no reply and does not
\* stop the event.
C18_GroupGating ==
    \A h \in Handlers :
        (handler[h] # "none" /\ Enabled(h)) =>
            /\ ~GroupAllowed(h) => ReturnedAtOnce(h)
            /\ Proceeded(h) => GroupAllowed(h)
            /\ (GroupAllowed(h) /\ ShowsIfPastGate(h)) => Proceeded(h)

\* Group gating at work under both modes: a handler was called with a video id from a
\* group that a list of two ids, one of them configured as a number, does not allow, and
\* returned at once.
C18_Witness ==
    /\ Len(group_list) = 2
    /\ handler["h1"] \in {"on_message", "search_video"}
    /\ Enabled("h1")
    /\ event["h1"].has_obj
    /\ event["h1"].group_id = (IF group_whitelist_mode THEN PyStr(<<"g","3">>) ELSE PyStr(<<"1">>))
    /\ BiliPatternSearch(event["h1"].message_str)
    /\ ReturnedAtOnce("h1")

====
